---- MODULE Spec2Model ----
(***************************************************************************)
(* State-machine model of the user-space file system of OS_course_design:  *)
(* the free-block bitmap (FreeBitmap), the page cache (CacheManager), the  *)
(* inode manager (INodeManager) and the facade (SimpleFileSystem).         *)
(*                                                                         *)
(* The repository holds several revisions of some components.  A revision  *)
(* is selected by an "impl" variable fixed at Init:                        *)
(*   bitmap  "core" = src/src/core/bitmap.cpp   "p012" = src/unnamed/part_012 *)
(*   cache   "core" = src/src/core/cache.cpp    "p005" = src/unnamed/part_005 *)
(*           "p004" = src/unnamed/part_004                                  *)
(* The functional actions below are the handlers' effects; the lock        *)
(* acquisitions of the handlers are not part of these actions.             *)
(***************************************************************************)
EXTENDS Integers, Sequences, FiniteSets, TLC

(***************************************************************************)
(* Bounds                                                                  *)
(***************************************************************************)
\* number of blocks of the device (VirtualDisk::get_total_blocks)
TotalBlocks == 5
\* number of bitmap bits one device block holds (8 * BLOCK_SIZE in the source);
\* kept below TotalBlocks as in the default 256 MiB configuration (65536 > 32768)
BitsPerBlock == 3
\* largest block number / count passed to a bitmap operation is TotalBlocks + ArgSlack
ArgSlack == 1
\* modulus of the unsigned machine word (2^32 in the source)
WordMod == 64
\* number of cache frames (CACHE_PAGES in the source)
CachePages == 2
\* inode records per block (BLOCK_SIZE / sizeof(INode) in the source); the unit
\* of file size is the size of one inode record, so this is also the block size
InodesPerBlock == 4
\* capacity of the inode table (MAX_FILES in the source)
MaxInodes == 6
\* directory entries whose serialized form fits in one block
DirFit == 4
\* longest path, in components
MaxDepth == 2
\* calls made on the file system after a format
MaxCalls == 6

(***************************************************************************)
(* Program constants                                                       *)
(***************************************************************************)
ROOT_INODE_ID == 1
FS_FILE == 0
FS_DIRECTORY == 1
\* INodeManager::inode_table_start_
inode_table_start_ == 1
MAX_ENTRIES == 256

\* uint32_t arithmetic is modular; the modulus 2^32 is scaled to WordMod
U32 == WordMod
UINT32_MAX == U32 - 1

Min(a, b) == IF a < b THEN a ELSE b

Blocks == 0 .. (TotalBlocks - 1)
ImgBits == 0 .. (Min(TotalBlocks, BitsPerBlock) - 1)

VARIABLES
    \* ---- FreeBitmap ----
    bmImpl,          \* revision of bitmap.cpp in use
    total_blocks_,   \* FreeBitmap::total_blocks_
    free_blocks_,    \* FreeBitmap::free_blocks_
    bitmap_,         \* FreeBitmap::bitmap_, one BOOLEAN per block number, TRUE = allocated
    bmLast,          \* the last bitmap call and what it returned
    \* ---- device ----
    disk,            \* content of the backing file, one value per block
    stream_fail,     \* VirtualDisk::file_stream_ is in its fail state
    \* ---- CacheManager ----
    cImpl,           \* revision of cache.cpp in use
    pages_,          \* CacheManager::pages_, per frame [block_no, dirty, data]
    block_to_page_,  \* CacheManager::block_to_page_, -1 for a block that has no entry
    fifo_queue_,     \* CacheManager::fifo_queue_, frame indices
    inserted,        \* history: the resident blocks in the order they became resident
    cLast,           \* the last cache call and how it ended
    \* ---- SimpleFileSystem and INodeManager ----
    formatted,       \* the disk file exists
    mounted_,        \* SimpleFileSystem::mounted_
    inode_used_,     \* INodeManager::inode_used_
    inode_count_,    \* INodeManager::inode_count_
    directory_cache_, \* INodeManager::directory_cache_, cached id -> entries
    open_files_,     \* SimpleFileSystem::open_files_, path -> reference count
    net_opens,       \* history: per path, the open_file calls that returned true
                     \* minus the close_file calls that did, since the mount
    written,         \* history: path -> what the last successful call left there
    fsLast,          \* the last file system call and what it returned
    calls,           \* history: the number of calls since the last format
    plain,           \* history: every call since the last format was a mount, an
                     \* unmount or a create or write that succeeded
    \* ---- SimpleFileSystem: paths ----
    current_path_,   \* SimpleFileSystem::current_path_, a string of characters
    npLast,          \* the last path call, its argument and what it returned
    \* ---- concurrent clients ----
    pc,              \* per client, the statement it is at
    loc,             \* per client, its local variables
    inode_locks_,    \* INodeManager::inode_locks_: the inode ids whose SpinLock is held
    allocation_mutex_, \* INodeManager::allocation_mutex_: the client that holds it
    rw_lock_,        \* CacheManager::rw_lock_: the readers and the writer that hold it
    mutexes,         \* per lock of SpecLocks, the client that holds it
    cliLast,         \* per client, the last call that returned and its result
    \* ---- units ----
    vdisk,           \* a VirtualDisk object, its backing file and the last call
    dirpage,         \* a Directory: entries_.size() and the last call
    tree,            \* the paths the inode manager resolves, each a directory or a file
    sched            \* a SimpleScheduler and its threads

bmVars == <<bmImpl, total_blocks_, free_blocks_, bitmap_, bmLast>>
devVars == <<disk, stream_fail>>
cVars == <<cImpl, pages_, block_to_page_, fifo_queue_, inserted, cLast>>
fsVars == <<formatted, mounted_, inode_used_, inode_count_, directory_cache_,
            open_files_, net_opens, written, fsLast, calls, plain>>
pathVars == <<current_path_, npLast>>
\* the variables of the specifications of single components
cliVars == <<pc, loc, inode_locks_, allocation_mutex_, rw_lock_, mutexes, cliLast>>
unitVars == <<vdisk, dirpage, tree, sched>>
auxVars == <<pathVars, cliVars, unitVars>>
\* what a path call leaves alone
pathOthers == <<bmVars, devVars, cVars, fsVars, cliVars, unitVars>>
vars == <<bmVars, devVars, cVars, fsVars, auxVars>>
\* what a call on the bitmap object leaves alone
bmOthers == <<cVars, fsVars, auxVars>>
\* what a call on the cache object leaves alone
cOthers == <<bmVars, fsVars, auxVars>>
\* what a call on the file system leaves alone
fsOthers == <<bmImpl, bmLast, stream_fail, cVars, auxVars>>

(***************************************************************************)
(* Device blocks.  A block is a record; k = "zero" is a block of zero      *)
(* bytes, k = "bits" is a bitmap image.                                    *)
(***************************************************************************)
ZeroBlock == [k |-> "zero"]
BitsBlock(img) == [k |-> "bits", img |-> img]

\* the bitmap bits a block holds when its bytes are read as a bitmap
BlockAsBits(blk) ==
    IF blk.k = "bits" THEN blk.img ELSE [i \in ImgBits |-> FALSE]

(***************************************************************************)
(* FreeBitmap: a bitmap object is the record [total, bits, free].          *)
(***************************************************************************)
BM == [total |-> total_blocks_, bits |-> bitmap_, free |-> free_blocks_]

\* number of set bits among the blocks below total
PopCount(b) == Cardinality({n \in Blocks : n < b.total /\ b.bits[n]})

is_block_free(b, block_no) ==
    IF block_no >= b.total THEN FALSE ELSE ~b.bits[block_no]

\* src/src/core/bitmap.cpp
set_block_status(b, block_no, allocated) ==
    IF block_no >= b.total THEN b
    ELSE LET was_free == ~b.bits[block_no] IN
         IF allocated
         THEN [b EXCEPT !.bits[block_no] = TRUE,
                        !.free = IF was_free THEN (b.free - 1) % U32 ELSE b.free]
         ELSE [b EXCEPT !.bits[block_no] = FALSE,
                        !.free = IF ~was_free THEN (b.free + 1) % U32 ELSE b.free]

\* src/unnamed/part_012
set_block_status_p012(b, block_no, allocated) ==
    IF block_no >= b.total THEN b
    ELSE LET was_free == is_block_free(b, block_no) IN
         IF allocated
         THEN IF was_free /\ b.free > 0
              THEN [b EXCEPT !.bits[block_no] = TRUE, !.free = b.free - 1]
              ELSE b
         ELSE IF ~was_free
              THEN [b EXCEPT !.bits[block_no] = FALSE, !.free = (b.free + 1) % U32]
              ELSE b

SetStatus(impl, b, block_no, allocated) ==
    IF impl = "core" THEN set_block_status(b, block_no, allocated)
                     ELSE set_block_status_p012(b, block_no, allocated)

\* first index i < count with block start + i not free, or count when all are free
RECURSIVE FirstBusy(_, _, _, _)
FirstBusy(b, start, count, i) ==
    IF i >= count THEN count
    ELSE IF ~is_block_free(b, start + i) THEN i
    ELSE FirstBusy(b, start, count, i + 1)

\* the for-loop of find_first_free_block, entered with block = from
RECURSIVE FirstFreeFrom(_, _)
FirstFreeFrom(b, block) ==
    IF block >= b.total THEN UINT32_MAX
    ELSE IF is_block_free(b, block) THEN block
    ELSE FirstFreeFrom(b, block + 1)

\* src/src/core/bitmap.cpp: scan from block 0
find_first_free_block(b) == FirstFreeFrom(b, 0)
\* src/unnamed/part_012: scan from block 2
find_first_free_block_p012(b) == FirstFreeFrom(b, 2)

\* src/src/core/bitmap.cpp: the outer loop, start = 0, 1, 2, ...
RECURSIVE ScanConsecutive(_, _, _)
ScanConsecutive(b, count, start) ==
    IF start > (b.total - count) % U32 THEN UINT32_MAX
    ELSE IF FirstBusy(b, start, count, 0) = count THEN start
    ELSE ScanConsecutive(b, count, start + 1)

find_consecutive_free_blocks(b, count) ==
    IF count = 0 \/ count > b.free THEN UINT32_MAX
    ELSE ScanConsecutive(b, count, 0)

\* src/unnamed/part_012: on a busy block start + i the loop does start += i and
\* the for-increment adds one more
RECURSIVE ScanConsecutive_p012(_, _, _)
ScanConsecutive_p012(b, count, start) ==
    IF start > (b.total - count) % U32 THEN UINT32_MAX
    ELSE LET i == FirstBusy(b, start, count, 0) IN
         IF i = count THEN start
         ELSE ScanConsecutive_p012(b, count, start + i + 1)

find_consecutive_free_blocks_p012(b, count) ==
    IF count = 0 \/ count > b.free THEN UINT32_MAX
    ELSE ScanConsecutive_p012(b, count, 2)

\* total_blocks_ - count wraps when count > total_blocks_: the bound of the outer
\* loop is then above every 32-bit start, no start is ever found (a range of
\* more than total_blocks_ blocks holds an out-of-range block) and the loop does
\* not terminate
ScanDiverges(b, count) ==
    count # 0 /\ count <= b.free /\ count > b.total

FindFirst(impl, b) ==
    IF impl = "core" THEN find_first_free_block(b) ELSE find_first_free_block_p012(b)
FindConsecutive(impl, b, count) ==
    IF impl = "core" THEN find_consecutive_free_blocks(b, count)
                     ELSE find_consecutive_free_blocks_p012(b, count)

\* set_block_status(start + i, allocated) for i = from .. count - 1, in order
RECURSIVE SetRange(_, _, _, _, _, _)
SetRange(impl, b, start, count, i, allocated) ==
    IF i >= count THEN b
    ELSE SetRange(impl, SetStatus(impl, b, start + i, allocated),
                  start, count, i + 1, allocated)

\* allocate_block: [ok, val, b]
allocate_block(impl, b) ==
    IF b.free = 0 THEN [ok |-> FALSE, val |-> 0, b |-> b]
    ELSE LET fb == FindFirst(impl, b) IN
         IF fb = UINT32_MAX THEN [ok |-> FALSE, val |-> 0, b |-> b]
         ELSE [ok |-> TRUE, val |-> fb, b |-> SetStatus(impl, b, fb, TRUE)]

\* allocate_consecutive_blocks: [ok, val, b]
allocate_consecutive_blocks(impl, b, count) ==
    IF count = 0 \/ count > b.free THEN [ok |-> FALSE, val |-> 0, b |-> b]
    ELSE LET start == FindConsecutive(impl, b, count) IN
         IF start = UINT32_MAX THEN [ok |-> FALSE, val |-> 0, b |-> b]
         ELSE [ok |-> TRUE, val |-> start,
               b |-> SetRange(impl, b, start, count, 0, TRUE)]

\* src/src/core/bitmap.cpp
free_block(b, block_no) ==
    IF block_no >= b.total THEN b ELSE set_block_status(b, block_no, FALSE)
\* src/unnamed/part_012
free_block_p012(b, block_no) ==
    IF block_no < 2 \/ block_no >= b.total THEN b
    ELSE set_block_status_p012(b, block_no, FALSE)

\* the loop of part_012's free_consecutive_blocks skips the blocks below 2
RECURSIVE FreeRange_p012(_, _, _)
FreeRange_p012(b, block, end_block) ==
    IF block >= end_block THEN b
    ELSE FreeRange_p012(IF block >= 2 THEN set_block_status_p012(b, block, FALSE) ELSE b,
                        block + 1, end_block)

\* src/src/core/bitmap.cpp
free_consecutive_blocks(b, start_block, count) ==
    IF start_block >= b.total \/ count = 0 THEN b
    ELSE LET end_block == Min((start_block + count) % U32, b.total) IN
         SetRange("core", b, start_block, end_block - start_block, 0, FALSE)
\* src/unnamed/part_012
free_consecutive_blocks_p012(b, start_block, count) ==
    IF start_block >= b.total \/ count = 0 THEN b
    ELSE FreeRange_p012(b, start_block, Min((start_block + count) % U32, b.total))

FreeConsecutive(impl, b, start_block, count) ==
    IF impl = "core" THEN free_consecutive_blocks(b, start_block, count)
                     ELSE free_consecutive_blocks_p012(b, start_block, count)

\* src/src/core/bitmap.cpp: an out-of-range block is reported not allocated
is_block_allocated(b, block_no) ==
    IF block_no >= b.total THEN FALSE ELSE ~is_block_free(b, block_no)
\* src/unnamed/part_012: an out-of-range block is reported allocated
is_block_allocated_p012(b, block_no) ==
    IF block_no >= b.total THEN TRUE ELSE ~is_block_free(b, block_no)
IsAllocated(impl, b, block_no) ==
    IF impl = "core" THEN is_block_allocated(b, block_no)
                     ELSE is_block_allocated_p012(b, block_no)

mark_block_used(impl, b, block_id) ==
    IF block_id >= b.total THEN b ELSE SetStatus(impl, b, block_id, TRUE)

\* recount of the free blocks done by load
CountFree(b) == Cardinality({n \in Blocks : is_block_free(b, n)})

\* the image write_block(0, bitmap_.data()) leaves in block 0
save(b) == BitsBlock([i \in ImgBits |-> b.bits[i]])

\* src/src/core/bitmap.cpp load: the bits block 0 holds replace the first bits
\* of the vector, the rest of the vector keeps its content; free is recounted
load(b, total, blk) ==
    LET img == BlockAsBits(blk)
        nb  == [n \in Blocks |-> IF n \in ImgBits THEN img[n] ELSE b.bits[n]]
        b1  == [total |-> total, bits |-> nb, free |-> 0]
    IN [b1 EXCEPT !.free = CountFree(b1)]

\* src/unnamed/part_012 load: as above, then blocks 0 and 1 are marked again
load_p012(b, total, blk) ==
    LET b1 == load(b, total, blk) IN
    IF total > 1
    THEN set_block_status_p012(set_block_status_p012(b1, 0, TRUE), 1, TRUE)
    ELSE b1

\* FreeBitmap::initialize(): src/src/core/bitmap.cpp clears every bit
initialize(b) ==
    [b EXCEPT !.bits = [n \in Blocks |-> FALSE], !.free = b.total]
\* src/unnamed/part_012: and marks blocks 0 and 1
initialize_p012(b) ==
    LET b1 == initialize(b) IN
    IF b.total > 1
    THEN set_block_status_p012(set_block_status_p012(b1, 0, TRUE), 1, TRUE)
    ELSE b1

\* src/src/core/bitmap.cpp initialize(VirtualDisk*): resize(n, 0) keeps the
\* elements the vector already has; the free count is set to the total
initialize_disk(b, total) ==
    [b EXCEPT !.total = total, !.free = total]
\* src/unnamed/part_012 initialize(CacheManager*, total_blocks)
initialize_cache_p012(b, total) ==
    initialize_p012([b EXCEPT !.total = total])

(***************************************************************************)
(* The values of the path variables in a run that normalizes no path.      *)
(***************************************************************************)
PathUnused ==
    /\ current_path_ = <<"/">>
    /\ npLast = [op |-> "none", path |-> << >>, result |-> << >>]

RwFree == [readers |-> {}, writer |-> "free"]

UnitsUnused == vdisk = << >> /\ dirpage = << >> /\ tree = << >> /\ sched = << >>

ClientsUnused ==
    /\ pc = << >>
    /\ loc = << >>
    /\ inode_locks_ = {}
    /\ allocation_mutex_ = "free"
    /\ rw_lock_ = RwFree
    /\ mutexes = << >>
    /\ cliLast = << >>

AuxUnused ==
    /\ PathUnused
    /\ ClientsUnused
    /\ UnitsUnused

(***************************************************************************)
(* The values of the cache variables in a run that has no cache.           *)
(***************************************************************************)
CacheUnused ==
    /\ cImpl = "none"
    /\ pages_ = <<>>
    /\ block_to_page_ = <<>>
    /\ fifo_queue_ = <<>>
    /\ inserted = <<>>
    /\ cLast = [op |-> "none", res |-> "ok"]

(***************************************************************************)
(* The values of the file system variables in a run that has none.         *)
(***************************************************************************)
FsUnused ==
    /\ formatted = FALSE
    /\ mounted_ = FALSE
    /\ inode_used_ = <<>>
    /\ inode_count_ = 0
    /\ directory_cache_ = <<>>
    /\ open_files_ = <<>>
    /\ net_opens = <<>>
    /\ written = <<>>
    /\ fsLast = [op |-> "none", ret |-> 0]
    /\ calls = 0
    /\ plain = TRUE

(***************************************************************************)
(* Specification SpecBitmap: a FreeBitmap object driven through its public *)
(* interface over a device whose block 0 holds the saved image.            *)
(***************************************************************************)
BlockArgs == 0 .. (TotalBlocks + ArgSlack)

SetBM(b) ==
    /\ total_blocks_' = b.total
    /\ bitmap_' = b.bits
    /\ free_blocks_' = b.free

InitBitmap ==
    /\ bmImpl \in {"core", "p012"}
    \* core: FreeBitmap(total_blocks); p012: the constructor leaves total_blocks_ = 0
    /\ total_blocks_ = IF bmImpl = "core" THEN TotalBlocks ELSE 0
    /\ free_blocks_ = IF bmImpl = "core" THEN TotalBlocks ELSE 0
    /\ bitmap_ = [n \in Blocks |-> FALSE]
    /\ bmLast = [op |-> "ctor", ok |-> TRUE, val |-> 0]
    /\ disk = [n \in Blocks |-> ZeroBlock]
    /\ stream_fail = FALSE
    /\ CacheUnused
    /\ FsUnused
    /\ AuxUnused

BmInitialize ==
    /\ SetBM(IF bmImpl = "core" THEN initialize(BM) ELSE initialize_p012(BM))
    /\ bmLast' = [op |-> "initialize", ok |-> TRUE, val |-> 0]
    /\ UNCHANGED <<bmImpl, devVars, bmOthers>>

\* initialize(VirtualDisk*) / initialize(CacheManager*, total): initialise, then save
BmInitializeDevice ==
    LET b == IF bmImpl = "core" THEN initialize_disk(BM, TotalBlocks)
                                ELSE initialize_cache_p012(BM, TotalBlocks) IN
    /\ SetBM(b)
    /\ disk' = [disk EXCEPT ![0] = save(b)]
    /\ bmLast' = [op |-> "initialize_device", ok |-> TRUE, val |-> 0]
    /\ UNCHANGED <<bmImpl, stream_fail, bmOthers>>

BmLoad ==
    /\ SetBM(IF bmImpl = "core" THEN load(BM, TotalBlocks, disk[0])
                                ELSE load_p012(BM, TotalBlocks, disk[0]))
    /\ bmLast' = [op |-> "load", ok |-> TRUE, val |-> 0]
    /\ UNCHANGED <<bmImpl, devVars, bmOthers>>

BmSave ==
    /\ total_blocks_ > 0
    /\ disk' = [disk EXCEPT ![0] = save(BM)]
    /\ bmLast' = [op |-> "save", ok |-> TRUE, val |-> 0]
    /\ UNCHANGED <<bmImpl, total_blocks_, free_blocks_, bitmap_, stream_fail, bmOthers>>

BmAllocateBlock ==
    LET r == allocate_block(bmImpl, BM) IN
    /\ SetBM(r.b)
    /\ bmLast' = [op |-> "allocate_block", ok |-> r.ok, val |-> r.val]
    /\ UNCHANGED <<bmImpl, devVars, bmOthers>>

BmAllocateConsecutive(count) ==
    /\ ~ScanDiverges(BM, count)
    /\ LET r == allocate_consecutive_blocks(bmImpl, BM, count) IN
       /\ SetBM(r.b)
       /\ bmLast' = [op |-> "allocate_consecutive_blocks", ok |-> r.ok, val |-> r.val]
    /\ UNCHANGED <<bmImpl, devVars, bmOthers>>

BmFreeBlock(block_no) ==
    /\ SetBM(IF bmImpl = "core" THEN free_block(BM, block_no)
                                ELSE free_block_p012(BM, block_no))
    /\ bmLast' = [op |-> "free_block", ok |-> TRUE, val |-> 0]
    /\ UNCHANGED <<bmImpl, devVars, bmOthers>>

BmFreeConsecutive(start_block, count) ==
    /\ SetBM(FreeConsecutive(bmImpl, BM, start_block, count))
    /\ bmLast' = [op |-> "free_consecutive_blocks", ok |-> TRUE, val |-> 0]
    /\ UNCHANGED <<bmImpl, devVars, bmOthers>>

BmMarkBlockUsed(block_id) ==
    /\ SetBM(mark_block_used(bmImpl, BM, block_id))
    /\ bmLast' = [op |-> "mark_block_used", ok |-> TRUE, val |-> 0]
    /\ UNCHANGED <<bmImpl, devVars, bmOthers>>

NextBitmap ==
    \/ BmInitialize
    \/ BmInitializeDevice
    \/ BmLoad
    \/ BmSave
    \/ BmAllocateBlock
    \/ \E count \in BlockArgs : BmAllocateConsecutive(count)
    \/ \E block_no \in BlockArgs : BmFreeBlock(block_no)
    \/ \E start_block \in BlockArgs, count \in BlockArgs : BmFreeConsecutive(start_block, count)
    \/ \E block_id \in BlockArgs : BmMarkBlockUsed(block_id)

SpecBitmap == InitBitmap /\ [][NextBitmap]_vars

(***************************************************************************)
(* Claims about the bitmap                                                 *)
(***************************************************************************)
AllocOps == {"allocate_block", "allocate_consecutive_blocks"}

\* C5: blocks 0 and 1 are reserved at all times: after a load (the bitmap step
\* of mount) and after any allocate / free / mark call, bits 0 and 1 are set
\* and no successful allocation returns a range that contains block 0 or 1.
C5_ReservedBlocks ==
    (bmLast.op \in AllocOps \cup {"load", "free_block", "free_consecutive_blocks",
                                  "mark_block_used"} /\ total_blocks_ > 1) =>
        /\ bitmap_[0] /\ bitmap_[1]
        /\ (bmLast.op \in AllocOps /\ bmLast.ok) => bmLast.val >= 2

\* starts s >= 2 of n free blocks that lie below total_blocks_
FitStarts(n) ==
    {s \in Blocks : s >= 2 /\ s + n <= total_blocks_
                      /\ \A i \in 0 .. (n - 1) : ~bitmap_[s + i]}
Lowest(S) == CHOOSE s \in S : \A t \in S : s <= t

\* C6: allocate_consecutive_blocks(n), n >= 1, is first-fit from index 2: it
\* succeeds with the lowest s >= 2 whose n blocks were free and below
\* total_blocks_ and marks exactly those blocks; it fails, changing nothing,
\* exactly when there is no such s.
C6_FirstFit ==
    [][\A n \in BlockArgs \ {0} : BmAllocateConsecutive(n) =>
          IF FitStarts(n) # {}
          THEN /\ bmLast'.ok
               /\ bmLast'.val = Lowest(FitStarts(n))
               /\ bitmap_' = [x \in Blocks |->
                                bitmap_[x] \/ (x >= bmLast'.val /\ x < bmLast'.val + n)]
          ELSE /\ ~bmLast'.ok
               /\ UNCHANGED <<bitmap_, free_blocks_, total_blocks_>>]_vars

\* C7: after any sequence of bitmap calls the free count equals total_blocks_
\* minus the number of set bits.
C7_FreeCount == free_blocks_ = total_blocks_ - PopCount(BM)

(***************************************************************************)
(* VirtualDisk::read_block / write_block succeed when the block number is  *)
(* below total_blocks_ and file_stream_ is not in its fail state.          *)
(***************************************************************************)
DiskOk(fail, block_no) == ~fail /\ block_no < TotalBlocks

DataBlock(v) == [k |-> "data", v |-> v]

(***************************************************************************)
(* CacheManager: a cache object is the record                              *)
(* [pages, map, fifo, disk, fail]; a call returns the record after the call *)
(* and how the call ended (threw = an exception left the call).            *)
(***************************************************************************)
Frames == 0 .. (CachePages - 1)
\* block numbers a caller passes: one more device block than there are frames,
\* and the first number beyond the device
CacheArgs == (0 .. (Min(CachePages + 1, TotalBlocks) - 1)) \cup {TotalBlocks}
NoPage == 0 - 1

CM == [pages |-> pages_, map |-> block_to_page_, fifo |-> fifo_queue_,
       disk |-> disk, fail |-> stream_fail]

find_page(c, block_no) == c.map[block_no]

\* src/src/core/cache.cpp and src/unnamed/part_004: a failed device write throws
\* and leaves the dirty flag set
write_back_page(c, page_index) ==
    LET pg == c.pages[page_index] IN
    IF pg.block_no # UINT32_MAX
    THEN IF DiskOk(c.fail, pg.block_no)
         THEN [c |-> [c EXCEPT !.disk[pg.block_no] = pg.data,
                               !.pages[page_index].dirty = FALSE],
               threw |-> FALSE]
         ELSE [c |-> c, threw |-> TRUE]
    ELSE [c |-> c, threw |-> FALSE]

\* src/unnamed/part_005: a failed device write is reported on cerr and the
\* dirty flag is cleared all the same
write_back_page_p005(c, page_index) ==
    LET pg == c.pages[page_index] IN
    IF pg.block_no # UINT32_MAX /\ pg.dirty
    THEN [c |-> [c EXCEPT !.disk = IF DiskOk(c.fail, pg.block_no)
                                   THEN [c.disk EXCEPT ![pg.block_no] = pg.data]
                                   ELSE c.disk,
                          !.pages[page_index].dirty = FALSE],
          threw |-> FALSE]
    ELSE [c |-> c, threw |-> FALSE]

WriteBack(impl, c, page_index) ==
    IF impl = "p005" THEN write_back_page_p005(c, page_index)
                     ELSE write_back_page(c, page_index)

FreeFrames(c) == {i \in Frames : c.pages[i].block_no = UINT32_MAX}
LowestOf(S) == CHOOSE i \in S : \A j \in S : i <= j

\* get_free_page: [c, idx, threw]
get_free_page(impl, c) ==
    IF FreeFrames(c) # {}
    THEN [c |-> c, idx |-> LowestOf(FreeFrames(c)), threw |-> FALSE]
    ELSE IF c.fifo # <<>>
    THEN LET victim_index == Head(c.fifo)
             c1 == [c EXCEPT !.fifo = Tail(c.fifo)]
             wb == IF c1.pages[victim_index].dirty
                   THEN WriteBack(impl, c1, victim_index)
                   ELSE [c |-> c1, threw |-> FALSE]
             c2 == [wb.c EXCEPT !.map[wb.c.pages[victim_index].block_no] = NoPage]
         IN IF wb.threw
            THEN [c |-> wb.c, idx |-> NoPage, threw |-> TRUE]
            ELSE [c |-> IF impl = "p005"
                        THEN [c2 EXCEPT !.pages[victim_index].block_no = UINT32_MAX]
                        ELSE c2,
                  idx |-> victim_index, threw |-> FALSE]
    ELSE [c |-> c, idx |-> NoPage, threw |-> FALSE]

\* the frame becomes the frame of block_no: block number, map entry, queue
Install(c, page_index, block_no) ==
    [c EXCEPT !.pages[page_index].block_no = block_no,
              !.map[block_no] = page_index,
              !.fifo = Append(c.fifo, page_index)]

\* read_block: [c, res]; res is "ok" (true), "fail" (false) or "throw"
read_block(impl, c, block_no) ==
    IF find_page(c, block_no) # NoPage THEN [c |-> c, res |-> "ok"]
    ELSE LET g == get_free_page(impl, c) IN
         IF g.threw THEN [c |-> g.c, res |-> "throw"]
         ELSE IF g.idx = NoPage THEN [c |-> g.c, res |-> "fail"]
         ELSE IF impl = "p004"
              \* part_004 does not read the device: the frame keeps its bytes
              THEN [c |-> [Install(g.c, g.idx, block_no)
                             EXCEPT !.pages[g.idx].dirty = FALSE],
                    res |-> "ok"]
         ELSE IF ~DiskOk(g.c.fail, block_no) THEN [c |-> g.c, res |-> "fail"]
         ELSE [c |-> [Install(g.c, g.idx, block_no)
                        EXCEPT !.pages[g.idx].dirty = FALSE,
                               !.pages[g.idx].data = g.c.disk[block_no]],
               res |-> "ok"]

\* write_block: [c, res]; on a miss part_005 first reads the device into the
\* frame and ignores a failure, then every revision overwrites the whole frame
write_block(impl, c, block_no, data) ==
    IF find_page(c, block_no) # NoPage
    THEN [c |-> [c EXCEPT !.pages[find_page(c, block_no)].data = data,
                          !.pages[find_page(c, block_no)].dirty = TRUE],
          res |-> "ok"]
    ELSE LET g == get_free_page(impl, c) IN
         IF g.threw THEN [c |-> g.c, res |-> "throw"]
         ELSE IF g.idx = NoPage THEN [c |-> g.c, res |-> "fail"]
         ELSE [c |-> [Install(g.c, g.idx, block_no)
                        EXCEPT !.pages[g.idx].data = data,
                               !.pages[g.idx].dirty = TRUE],
               res |-> "ok"]

\* flush_all: frames in index order, an exception ends the loop
RECURSIVE FlushFrom(_, _, _)
FlushFrom(impl, c, i) ==
    IF i >= CachePages THEN [c |-> c, res |-> "ok"]
    ELSE IF c.pages[i].dirty
         THEN LET wb == WriteBack(impl, c, i) IN
              IF wb.threw THEN [c |-> wb.c, res |-> "throw"]
              ELSE FlushFrom(impl, wb.c, i + 1)
         ELSE FlushFrom(impl, c, i + 1)

flush_all(impl, c) == FlushFrom(impl, c, 0)

(***************************************************************************)
(* Specification SpecCache: a CacheManager over a formatted device, driven *)
(* through read_block, write_block and flush_all; the device's stream may  *)
(* enter its fail state.                                                   *)
(***************************************************************************)
\* values a caller writes
WriteData == {DataBlock(1)}

Resident(map) == {b \in CacheArgs : map[b] # NoPage}

RECURSIVE KeepResident(_, _)
KeepResident(seq, R) ==
    IF seq = <<>> THEN <<>>
    ELSE IF Head(seq) \in R THEN <<Head(seq)>> \o KeepResident(Tail(seq), R)
    ELSE KeepResident(Tail(seq), R)

\* the history after a call that installs at most the block block_no
NextInserted(map1, block_no) ==
    LET kept == KeepResident(inserted, Resident(map1)) IN
    IF block_no \in Resident(map1) /\ block_no \notin Resident(block_to_page_)
    THEN Append(kept, block_no) ELSE kept

BitmapUnused ==
    /\ bmImpl = "none"
    /\ total_blocks_ = 0
    /\ free_blocks_ = 0
    /\ bitmap_ = <<>>
    /\ bmLast = [op |-> "none", ok |-> TRUE, val |-> 0]

InitCache ==
    /\ cImpl \in {"core", "p005", "p004"}
    /\ pages_ = [i \in Frames |-> [block_no |-> UINT32_MAX, dirty |-> FALSE,
                                   data |-> ZeroBlock]]
    /\ block_to_page_ = [b \in CacheArgs |-> NoPage]
    /\ fifo_queue_ = <<>>
    /\ inserted = <<>>
    /\ cLast = [op |-> "ctor", res |-> "ok"]
    /\ disk = [n \in Blocks |-> ZeroBlock]
    /\ stream_fail = FALSE
    /\ BitmapUnused
    /\ FsUnused
    /\ AuxUnused

CReadBlock(block_no) ==
    LET r == read_block(cImpl, CM, block_no) IN
    /\ pages_' = r.c.pages
    /\ block_to_page_' = r.c.map
    /\ fifo_queue_' = r.c.fifo
    /\ disk' = r.c.disk
    /\ inserted' = NextInserted(r.c.map, block_no)
    /\ cLast' = [op |-> "read_block", res |-> r.res]
    /\ UNCHANGED <<cImpl, stream_fail, cOthers>>

CWriteBlock(block_no, data) ==
    LET r == write_block(cImpl, CM, block_no, data) IN
    /\ pages_' = r.c.pages
    /\ block_to_page_' = r.c.map
    /\ fifo_queue_' = r.c.fifo
    /\ disk' = r.c.disk
    /\ inserted' = NextInserted(r.c.map, block_no)
    /\ cLast' = [op |-> "write_block", res |-> r.res]
    /\ UNCHANGED <<cImpl, stream_fail, cOthers>>

CFlushAll ==
    LET r == flush_all(cImpl, CM) IN
    /\ pages_' = r.c.pages
    /\ disk' = r.c.disk
    /\ cLast' = [op |-> "flush_all", res |-> r.res]
    /\ UNCHANGED <<cImpl, block_to_page_, fifo_queue_, inserted, stream_fail, cOthers>>

\* a read or write of the backing file fails: the stream's failbit stays set
StreamFails ==
    /\ ~stream_fail
    /\ stream_fail' = TRUE
    /\ UNCHANGED <<disk, cVars, cOthers>>

NextCache ==
    \/ \E block_no \in CacheArgs : CReadBlock(block_no)
    \/ \E block_no \in CacheArgs, data \in WriteData : CWriteBlock(block_no, data)
    \/ CFlushAll
    \/ StreamFails

SpecCache == InitCache /\ [][NextCache]_vars

(***************************************************************************)
(* Claims about the cache                                                  *)
(***************************************************************************)
\* a read or write of block_no that returned to its caller
CacheAccess(block_no) ==
    /\ \/ CReadBlock(block_no)
       \/ \E data \in WriteData : CWriteBlock(block_no, data)
    /\ cLast'.res # "throw"

\* C8: eviction is FIFO by insertion: a miss that finds every frame holding a
\* resident block evicts exactly the resident block that was inserted
\* earliest, and a hit leaves the queue as it is.
C8_FifoEviction ==
    [][\A block_no \in CacheArgs : CacheAccess(block_no) =>
          /\ (block_to_page_[block_no] = NoPage
                /\ Cardinality(Resident(block_to_page_)) = CachePages)
             => (Resident(block_to_page_) \ Resident(block_to_page_')
                   = {Head(inserted)})
          /\ (block_to_page_[block_no] # NoPage) => (fifo_queue_' = fifo_queue_)]_vars

\* C9: after flush_all() returns no frame is dirty, and the device block of
\* every frame that was dirty at the call holds that frame's data.
C9_FlushAll ==
    [][(CFlushAll /\ cLast'.res = "ok") =>
          /\ \A i \in Frames : ~pages_'[i].dirty
          /\ \A i \in Frames :
                (pages_[i].dirty /\ pages_[i].block_no \in Blocks)
                => disk'[pages_[i].block_no] = pages_[i].data]_vars

\* C10: every resident frame that is not dirty holds the device's current
\* content of its block.
C10_CleanFramesMatchDevice ==
    cImpl # "none" =>
    \A i \in Frames :
        LET pg == pages_[i] IN
        (pg.block_no \in Blocks /\ block_to_page_[pg.block_no] = i /\ ~pg.dirty)
        => pg.data = disk[pg.block_no]

(***************************************************************************)
(* Inode records and the blocks the inode manager reads and writes.        *)
(*                                                                         *)
(* A block is seen in units of one inode record (InodesPerBlock units per  *)
(* block).  File content is a sequence of units, each a content symbol;    *)
(* "Z" is a unit of zero bytes.  A block written as a whole is             *)
(*   [k |-> "file", ch |-> units]    file data, zero padded                *)
(*   [k |-> "dir", entries |-> seq]  a serialized directory, zero padded   *)
(* and write_inode, which rewrites one record of a block it has read,      *)
(* gives [k |-> "mix", base |-> block, over |-> slot :> record].           *)
(***************************************************************************)
BS == InodesPerBlock
Slots == 0 .. (InodesPerBlock - 1)

\* the 32-bit word made of four equal content bytes; twice the word does not
\* wrap (0x61616161 in the source's width)
GarbageWord == (WordMod \div 2) - 3

INodeRec(id, type, size, start_block, block_count, parent_id, name) ==
    [id |-> id, type |-> type, size |-> size, start_block |-> start_block,
     block_count |-> block_count, parent_id |-> parent_id, name |-> name]

\* the record read from zero bytes
ZeroINode == INodeRec(0, 0, 0, 0, 0, 0, "")
\* the record read from a unit of file content
GarbageINode ==
    INodeRec(GarbageWord, GarbageWord, GarbageWord, GarbageWord, GarbageWord,
             GarbageWord, "?")

FileBlock(ch) == [k |-> "file", ch |-> ch]
DirBlock(entries) == [k |-> "dir", entries |-> entries]

\* memcpy(node, block + offset, INODE_SIZE): the record at a slot of a block.
\* The bytes of a bitmap image or of a serialized directory are read as the
\* zero record.
SlotRec(blk, s) ==
    IF blk.k = "mix" /\ s \in DOMAIN blk.over THEN blk.over[s]
    ELSE LET b == IF blk.k = "mix" THEN blk.base ELSE blk IN
         IF b.k = "file" /\ b.ch[s + 1] # "Z" THEN GarbageINode ELSE ZeroINode

\* memcpy(block + offset, node, INODE_SIZE)
PutSlot(blk, s, rec) ==
    IF blk.k = "mix"
    THEN [blk EXCEPT !.over = (s :> rec) @@ blk.over]
    ELSE [k |-> "mix", base |-> blk, over |-> (s :> rec)]

\* unit j of a block read as file data: "I" is a unit that holds an inode
\* record, "X" a unit of a bitmap image or of a serialized directory
UnitAt(blk, j) ==
    IF blk.k = "mix" /\ j \in DOMAIN blk.over THEN "I"
    ELSE LET b == IF blk.k = "mix" THEN blk.base ELSE blk IN
         IF b.k = "file" THEN b.ch[j + 1]
         ELSE IF b.k = "zero" THEN "Z" ELSE "X"

(***************************************************************************)
(* The inode manager's state is the record                                 *)
(*   [disk, bm, impl, used, cnt, dc]                                       *)
(* disk: the device, bm: the FreeBitmap record, impl: its revision,        *)
(* used: inode_used_, cnt: inode_count_, dc: directory_cache_ (a function  *)
(* from the cached directory ids to their entries).  A call returns the    *)
(* state after the call together with its return value.                    *)
(***************************************************************************)
INODES_PER_BLOCK == InodesPerBlock

TableBlock(inode_id) == (inode_id \div INODES_PER_BLOCK) + inode_table_start_

read_inode(st, inode_id) ==
    IF inode_id < 0 \/ inode_id >= MaxInodes THEN [ok |-> FALSE, node |-> ZeroINode]
    ELSE IF ~st.used[inode_id] THEN [ok |-> FALSE, node |-> ZeroINode]
    ELSE IF ~DiskOk(FALSE, TableBlock(inode_id)) THEN [ok |-> FALSE, node |-> ZeroINode]
    ELSE [ok |-> TRUE,
          node |-> SlotRec(st.disk[TableBlock(inode_id)], inode_id % INODES_PER_BLOCK)]

write_inode(st, inode_id, node) ==
    IF inode_id < 0 \/ inode_id >= MaxInodes THEN [ok |-> FALSE, st |-> st]
    ELSE IF ~DiskOk(FALSE, TableBlock(inode_id)) THEN [ok |-> FALSE, st |-> st]
    ELSE [ok |-> TRUE,
          st |-> [st EXCEPT !.disk[TableBlock(inode_id)] =
                     PutSlot(@, inode_id % INODES_PER_BLOCK, node)]]

calculate_blocks_needed(size) == ((size + BS - 1) % U32) \div BS

(***************************************************************************)
(* Directory: the entries of a directory object, a sequence of             *)
(* [name, inode_id, type].                                                 *)
(***************************************************************************)
DirEntry(name, inode_id, type) == [name |-> name, inode_id |-> inode_id, type |-> type]

\* index of the first entry called name, 0 when there is none
EntryIndex(entries, name) ==
    IF \E i \in 1 .. Len(entries) : entries[i].name = name
    THEN CHOOSE i \in 1 .. Len(entries) :
            entries[i].name = name /\ \A j \in 1 .. (i - 1) : entries[j].name # name
    ELSE 0

add_entry(entries, name, inode_id, type) ==
    IF name = "" THEN [ok |-> FALSE, e |-> entries]
    ELSE IF EntryIndex(entries, name) # 0 THEN [ok |-> FALSE, e |-> entries]
    ELSE IF Len(entries) >= MAX_ENTRIES THEN [ok |-> FALSE, e |-> entries]
    ELSE [ok |-> TRUE, e |-> Append(entries, DirEntry(name, inode_id, type))]

remove_entry(entries, name) ==
    LET i == EntryIndex(entries, name) IN
    IF i = 0 THEN [ok |-> FALSE, e |-> entries]
    ELSE [ok |-> TRUE,
          e |-> SubSeq(entries, 1, i - 1) \o SubSeq(entries, i + 1, Len(entries))]

\* size of the serialized directory, in the unit header + one per entry
SerializedSize(entries) == 1 + Len(entries)

(***************************************************************************)
(* INodeManager (src/unnamed/part_009): directories.                       *)
(*                                                                         *)
(* Where a call's result is used more than once it is bound to a name by   *)
(*     CHOOSE y \in {e : r \in {v}} : TRUE                                 *)
(* which is the value of e with r bound to the value v.                    *)
(***************************************************************************)
Cached(st, inode_id) == inode_id \in DOMAIN st.dc

cache_directory(st, inode_id, entries) ==
    [st EXCEPT !.dc = (inode_id :> entries) @@ st.dc]

remove_from_cache(st, inode_id) ==
    [st EXCEPT !.dc = [i \in (DOMAIN st.dc) \ {inode_id} |-> st.dc[i]]]

BaseOf(blk) == IF blk.k = "mix" THEN blk.base ELSE blk
EntriesOf(blk) == IF BaseOf(blk).k = "dir" THEN BaseOf(blk).entries ELSE << >>

\* Directory::deserialize of the first size units of a block: the block must
\* hold a directory of exactly that serialized size
Deserialize(blk, size) ==
    IF /\ (BaseOf(blk).k = "dir" \/ BaseOf(blk).k = "zero")
       /\ size = SerializedSize(EntriesOf(blk))
    THEN [ok |-> TRUE, e |-> EntriesOf(blk)]
    ELSE [ok |-> FALSE, e |-> << >>]

load_directory_content(st, dir_inode_id) ==
    CHOOSE y \in {
        IF ~r.ok \/ r.node.type # FS_DIRECTORY THEN [ok |-> FALSE, e |-> << >>]
        ELSE IF r.node.block_count = 0 THEN [ok |-> TRUE, e |-> << >>]
        ELSE IF \E i \in 0 .. (r.node.block_count - 1) :
                    ~DiskOk(FALSE, (r.node.start_block + i) % U32)
             THEN [ok |-> FALSE, e |-> << >>]
        ELSE Deserialize(st.disk[r.node.start_block], r.node.size)
      : r \in {read_inode(st, dir_inode_id)}} : TRUE

get_directory(st, dir_inode_id) ==
    IF Cached(st, dir_inode_id)
    THEN [ok |-> TRUE, e |-> st.dc[dir_inode_id], st |-> st]
    ELSE CHOOSE y \in {
             IF ~l.ok THEN [ok |-> FALSE, e |-> << >>, st |-> st]
             ELSE [ok |-> TRUE, e |-> l.e,
                   st |-> cache_directory(st, dir_inode_id, l.e)]
           : l \in {load_directory_content(st, dir_inode_id)}} : TRUE

save_directory_content(st, dir_inode_id, entries) ==
    CHOOSE y \in {
        IF ~r.ok THEN [ok |-> FALSE, st |-> st]
        ELSE IF r.node.block_count = 0 THEN [ok |-> FALSE, st |-> st]
        ELSE IF Len(entries) > DirFit THEN [ok |-> FALSE, st |-> st]
        ELSE IF ~DiskOk(FALSE, r.node.start_block) THEN [ok |-> FALSE, st |-> st]
        ELSE write_inode([st EXCEPT !.disk[r.node.start_block] = DirBlock(entries)],
                         dir_inode_id,
                         [r.node EXCEPT !.size = SerializedSize(entries)])
      : r \in {read_inode(st, dir_inode_id)}} : TRUE

\* the entry is added to the cached directory object before the directory is
\* saved, and stays there when the save fails
add_directory_entry(st, dir_inode_id, name, inode_id, type) ==
    CHOOSE y \in {
        IF ~g.ok THEN [ok |-> FALSE, st |-> g.st]
        ELSE CHOOSE z \in {
                 IF ~a.ok THEN [ok |-> FALSE, st |-> g.st]
                 ELSE save_directory_content(
                          cache_directory(g.st, dir_inode_id, a.e), dir_inode_id, a.e)
               : a \in {add_entry(g.e, name, inode_id, type)}} : TRUE
      : g \in {get_directory(st, dir_inode_id)}} : TRUE

remove_directory_entry(st, dir_inode_id, name) ==
    CHOOSE y \in {
        IF ~g.ok THEN [ok |-> FALSE, st |-> g.st]
        ELSE CHOOSE z \in {
                 IF ~a.ok THEN [ok |-> FALSE, st |-> g.st]
                 ELSE save_directory_content(
                          cache_directory(g.st, dir_inode_id, a.e), dir_inode_id, a.e)
               : a \in {remove_entry(g.e, name)}} : TRUE
      : g \in {get_directory(st, dir_inode_id)}} : TRUE

find_inode(st, parent_id, name) ==
    CHOOSE y \in {
        IF ~g.ok \/ EntryIndex(g.e, name) = 0 THEN [id |-> 0 - 1, st |-> g.st]
        ELSE [id |-> g.e[EntryIndex(g.e, name)].inode_id, st |-> g.st]
      : g \in {get_directory(st, parent_id)}} : TRUE

(***************************************************************************)
(* INodeManager: inodes.                                                   *)
(***************************************************************************)
StAlloc(st, count) ==
    CHOOSE y \in {
        [ok |-> a.ok, val |-> a.val, st |-> [st EXCEPT !.bm = a.b]]
      : a \in {allocate_consecutive_blocks(st.impl, st.bm, count)}} : TRUE

StFree(st, start_block, count) ==
    [st EXCEPT !.bm = FreeConsecutive(st.impl, st.bm, start_block, count)]

\* delete_inode, after the record is read: the entry in the parent
Unlink(st, inode_id, node) ==
    IF node.parent_id # inode_id
    THEN remove_directory_entry(st, node.parent_id, node.name).st
    ELSE st
\* the blocks
FreeExtent(st, node) ==
    IF node.block_count > 0 THEN StFree(st, node.start_block, node.block_count)
    ELSE st
\* the cache entry, the slot and the count
Release(st, inode_id) ==
    [remove_from_cache(st, inode_id) EXCEPT !.used[inode_id] = FALSE,
                                            !.cnt = (st.cnt + U32 - 1) % U32]

delete_inode(st, inode_id) ==
    IF inode_id < 0 \/ inode_id >= MaxInodes THEN [ok |-> FALSE, st |-> st]
    ELSE IF ~st.used[inode_id] THEN [ok |-> FALSE, st |-> st]
    ELSE CHOOSE y \in {
             IF ~r.ok THEN [ok |-> FALSE, st |-> st]
             ELSE [ok |-> TRUE,
                   st |-> Release(FreeExtent(Unlink(st, inode_id, r.node), r.node),
                                  inode_id)]
           : r \in {read_inode(st, inode_id)}} : TRUE

FreeIds(st) == {i \in 1 .. (MaxInodes - 1) : ~st.used[i]}
BlocksFor(type, size) == IF type = FS_FILE THEN calculate_blocks_needed(size) ELSE 1

\* create_inode, from the end: the slot is marked and counted
create_inode_done(st, inode_id) ==
    [ret |-> inode_id,
     st |-> [st EXCEPT !.used[inode_id] = TRUE, !.cnt = (st.cnt + 1) % U32]]

\* the entry in the parent; delete_inode undoes the creation when it fails
create_inode_link(st, node) ==
    IF node.parent_id = node.id THEN create_inode_done(st, node.id)
    ELSE CHOOSE y \in {
             IF ~ad.ok THEN [ret |-> 0 - 1, st |-> delete_inode(ad.st, node.id).st]
             ELSE create_inode_done(ad.st, node.id)
           : ad \in {add_directory_entry(st, node.parent_id, node.name, node.id,
                                         node.type)}} : TRUE

\* the record is written
create_inode_write(st, node) ==
    CHOOSE y \in {
        IF ~w.ok
        THEN [ret |-> 0 - 3,
              st |-> [StFree(w.st, node.start_block, node.block_count)
                         EXCEPT !.used[node.id] = FALSE]]
        ELSE create_inode_link(w.st, node)
      : w \in {write_inode(st, node.id, node)}} : TRUE

\* the blocks are allocated
create_inode_alloc(st, inode_id, parent_id, type, name, size) ==
    CHOOSE y \in {
        IF ~a.ok THEN [ret |-> 0 - 2, st |-> [a.st EXCEPT !.used[inode_id] = FALSE]]
        ELSE create_inode_write(a.st,
                 INodeRec(inode_id, type, size, a.val, BlocksFor(type, size),
                          parent_id, name))
      : a \in {StAlloc(st, BlocksFor(type, size))}} : TRUE

\* the lowest free slot, from slot 1, is taken
create_inode(st, parent_id, type, name, size) ==
    IF st.cnt >= MaxInodes \/ FreeIds(st) = {} THEN [ret |-> 0 - 1, st |-> st]
    ELSE create_inode_alloc([st EXCEPT !.used[Lowest(FreeIds(st))] = TRUE],
                            Lowest(FreeIds(st)), parent_id, type, name, size)

\* create_root_directory, from the end: "." and ".." are added and saved
create_root_save(st, start_block) ==
    CHOOSE y \in {
        IF ~e2.ok THEN [ok |-> FALSE, st |-> StFree(st, start_block, 1)]
        ELSE CHOOSE z \in {
                 IF ~sv.ok
                 THEN [ok |-> FALSE,
                       st |-> delete_inode(StFree(sv.st, start_block, 1),
                                           ROOT_INODE_ID).st]
                 ELSE [ok |-> TRUE,
                       st |-> cache_directory(sv.st, ROOT_INODE_ID, e2.e)]
               : sv \in {save_directory_content(st, ROOT_INODE_ID, e2.e)}} : TRUE
      : e2 \in {add_entry(add_entry(<< >>, ".", ROOT_INODE_ID, FS_DIRECTORY).e,
                          "..", ROOT_INODE_ID, FS_DIRECTORY)}} : TRUE

\* the record is written, the slot marked and counted
create_root_write(st, start_block) ==
    CHOOSE y \in {
        IF ~w.ok THEN [ok |-> FALSE, st |-> StFree(w.st, start_block, 1)]
        ELSE create_root_save([w.st EXCEPT !.used[ROOT_INODE_ID] = TRUE,
                                           !.cnt = (w.st.cnt + 1) % U32],
                              start_block)
      : w \in {write_inode(st, ROOT_INODE_ID,
                           INodeRec(ROOT_INODE_ID, FS_DIRECTORY, 0, start_block, 1,
                                    ROOT_INODE_ID, "/"))}} : TRUE

create_root_directory(st) ==
    CHOOSE y \in {
        IF ~a.ok THEN [ok |-> FALSE, st |-> a.st]
        ELSE create_root_write(a.st, a.val)
      : a \in {StAlloc(st, 1)}} : TRUE

\* VirtualDisk::copy_blocks (src/unnamed/part_007): block by block, stopping
\* at the first block that cannot be read or written
RECURSIVE CopyFrom(_, _, _, _, _)
CopyFrom(d, src_block, dst_block, count, i) ==
    IF i >= count THEN [ok |-> TRUE, disk |-> d]
    ELSE IF ~DiskOk(FALSE, (src_block + i) % U32) THEN [ok |-> FALSE, disk |-> d]
    ELSE IF ~DiskOk(FALSE, (dst_block + i) % U32) THEN [ok |-> FALSE, disk |-> d]
    ELSE CopyFrom([d EXCEPT ![dst_block + i] = d[src_block + i]],
                  src_block, dst_block, count, i + 1)

copy_blocks(d, src_block, dst_block, count) ==
    CopyFrom(d, src_block, dst_block, count, 0)

RECURSIVE MarkFrom(_, _, _, _, _)
MarkFrom(impl, b, first, additional, i) ==
    IF i >= additional THEN b
    ELSE MarkFrom(impl, mark_block_used(impl, b, (first + i) % U32),
                  first, additional, i + 1)

\* resize_inode, from the end: the blocks are copied to the new extent, the
\* old extent is freed and the record updated
resize_copy(st, inode_id, node, new_size, new_blocks, new_start) ==
    CHOOSE y \in {
        IF ~c.ok
        THEN [ok |-> FALSE,
              st |-> StFree([st EXCEPT !.disk = c.disk], new_start, new_blocks)]
        ELSE write_inode(StFree([st EXCEPT !.disk = c.disk],
                                node.start_block, node.block_count),
                         inode_id,
                         [node EXCEPT !.start_block = new_start,
                                      !.block_count = new_blocks,
                                      !.size = new_size])
      : c \in {copy_blocks(st.disk, node.start_block, new_start,
                           node.block_count)}} : TRUE

\* a new extent is allocated
resize_move(st, inode_id, node, new_size, new_blocks) ==
    CHOOSE y \in {
        IF ~a.ok THEN [ok |-> FALSE, st |-> a.st]
        ELSE resize_copy(a.st, inode_id, node, new_size, new_blocks, a.val)
      : a \in {StAlloc(st, new_blocks)}} : TRUE

\* the blocks after the extent are free
Contiguous(st, node, new_blocks) ==
    \A i \in 0 .. (new_blocks - node.block_count - 1) :
        ~IsAllocated(st.impl, st.bm, (node.start_block + node.block_count + i) % U32)

\* the record is read: same block count, growth in place, or a move
resize_node(st, inode_id, node, new_size, new_blocks) ==
    IF new_blocks = node.block_count
    THEN write_inode(st, inode_id, [node EXCEPT !.size = new_size])
    ELSE IF new_blocks > node.block_count /\ Contiguous(st, node, new_blocks)
    THEN write_inode([st EXCEPT !.bm = MarkFrom(st.impl, st.bm,
                                           node.start_block + node.block_count,
                                           new_blocks - node.block_count, 0)],
                     inode_id,
                     [node EXCEPT !.block_count = new_blocks, !.size = new_size])
    ELSE resize_move(st, inode_id, node, new_size, new_blocks)

resize_inode(st, inode_id, new_size) ==
    IF inode_id < 0 \/ inode_id >= MaxInodes THEN [ok |-> FALSE, st |-> st]
    ELSE IF ~st.used[inode_id] THEN [ok |-> FALSE, st |-> st]
    ELSE CHOOSE y \in {
             IF ~r.ok \/ r.node.type # FS_FILE THEN [ok |-> FALSE, st |-> st]
             ELSE resize_node(st, inode_id, r.node, new_size,
                              calculate_blocks_needed(new_size))
           : r \in {read_inode(st, inode_id)}} : TRUE

\* block i of the content, zero padded
ContentBlock(content, i) ==
    FileBlock([j \in 1 .. BS |->
                 IF i * BS + j <= Len(content) THEN content[i * BS + j] ELSE "Z"])

RECURSIVE WriteFrom(_, _, _, _, _)
WriteFrom(d, start_block, block_count, content, i) ==
    IF i >= block_count THEN [ok |-> TRUE, disk |-> d]
    ELSE IF ~DiskOk(FALSE, (start_block + i) % U32) THEN [ok |-> FALSE, disk |-> d]
    ELSE WriteFrom([d EXCEPT ![start_block + i] = ContentBlock(content, i)],
                   start_block, block_count, content, i + 1)

\* write_file_data, from the end: the blocks of the extent are written, then
\* the record as it was read before
write_blocks(st, inode_id, node, content) ==
    CHOOSE y \in {
        IF ~w.ok THEN [ok |-> FALSE, st |-> [st EXCEPT !.disk = w.disk]]
        ELSE write_inode([st EXCEPT !.disk = w.disk], inode_id, node)
      : w \in {WriteFrom(st.disk, node.start_block, node.block_count, content, 0)}}
      : TRUE

\* the record is read again after a resize
write_resized(st, inode_id, content) ==
    CHOOSE y \in {
        IF ~r.ok THEN [ok |-> FALSE, st |-> st]
        ELSE write_blocks(st, inode_id, r.node, content)
      : r \in {read_inode(st, inode_id)}} : TRUE

write_resize(st, inode_id, content) ==
    CHOOSE y \in {
        IF ~rs.ok THEN [ok |-> FALSE, st |-> rs.st]
        ELSE write_resized(rs.st, inode_id, content)
      : rs \in {resize_inode(st, inode_id, Len(content))}} : TRUE

write_file_data(st, inode_id, content) ==
    CHOOSE y \in {
        IF ~r.ok \/ r.node.type # FS_FILE THEN [ok |-> FALSE, st |-> st]
        ELSE IF r.node.size # Len(content) THEN write_resize(st, inode_id, content)
        ELSE write_blocks(st, inode_id, r.node, content)
      : r \in {read_inode(st, inode_id)}} : TRUE

read_file_data(st, inode_id) ==
    CHOOSE y \in {
        IF ~r.ok \/ r.node.type # FS_FILE THEN [ok |-> FALSE, content |-> << >>]
        ELSE IF \E i \in 0 .. (r.node.block_count - 1) :
                    ~DiskOk(FALSE, (r.node.start_block + i) % U32)
        THEN [ok |-> FALSE, content |-> << >>]
        ELSE [ok |-> TRUE,
              content |-> [n \in 1 .. r.node.size |->
                  IF (n - 1) \div BS < r.node.block_count
                  THEN UnitAt(st.disk[r.node.start_block + ((n - 1) \div BS)],
                              (n - 1) % BS)
                  ELSE "Z"]]
      : r \in {read_inode(st, inode_id)}} : TRUE

(***************************************************************************)
(* INodeManager: paths.  A normalized absolute path is the sequence of its *)
(* components; << >> is "/".                                               *)
(***************************************************************************)
Front(path) == SubSeq(path, 1, Len(path) - 1)
Last(path) == path[Len(path)]

RECURSIVE ResolveFrom(_, _, _, _)
ResolveFrom(st, path, i, current_inode) ==
    IF i > Len(path) THEN [id |-> current_inode, st |-> st]
    ELSE CHOOSE y \in {
             IF ~g.ok \/ EntryIndex(g.e, path[i]) = 0 THEN [id |-> 0 - 1, st |-> g.st]
             ELSE ResolveFrom(g.st, path, i + 1,
                              g.e[EntryIndex(g.e, path[i])].inode_id)
           : g \in {get_directory(st, current_inode)}} : TRUE

resolve_path(st, normalized) ==
    IF normalized = << >> THEN [id |-> ROOT_INODE_ID, st |-> st]
    ELSE ResolveFrom(st, normalized, 1, ROOT_INODE_ID)

\* create_file, from the end: the inode is created and the content written
create_file_inode(st, parent_inode, filename, content) ==
    CHOOSE y \in {
        IF ci.ret = 0 - 1 THEN [ok |-> FALSE, st |-> ci.st]
        ELSE IF content # << >> THEN write_file_data(ci.st, ci.ret, content)
        ELSE [ok |-> TRUE, st |-> ci.st]
      : ci \in {create_inode(st, parent_inode, FS_FILE, filename,
                             IF Len(content) = 0 THEN 1 ELSE Len(content))}} : TRUE

\* the name must not exist in the parent
create_file_in(st, parent_inode, filename, content) ==
    CHOOSE y \in {
        IF f.id # 0 - 1 THEN [ok |-> FALSE, st |-> f.st]
        ELSE create_file_inode(f.st, parent_inode, filename, content)
      : f \in {find_inode(st, parent_inode, filename)}} : TRUE

create_file(st, normalized, content) ==
    CHOOSE y \in {
        IF rp.id = 0 - 1 THEN [ok |-> FALSE, st |-> rp.st]
        ELSE create_file_in(rp.st, rp.id, Last(normalized), content)
      : rp \in {resolve_path(st, Front(normalized))}} : TRUE

\* create_directory without the ".." entry
create_directory_save_nodotdot(st, dir_inode, parent_inode) ==
    CHOOSE y \in {
        IF ~sv.ok THEN [ok |-> FALSE, st |-> delete_inode(sv.st, dir_inode).st]
        ELSE [ok |-> TRUE,
              st |-> cache_directory(sv.st, dir_inode,
                         <<DirEntry(".", dir_inode, FS_DIRECTORY)>>)]
      : sv \in {save_directory_content(st, dir_inode,
                    <<DirEntry(".", dir_inode, FS_DIRECTORY)>>)}} : TRUE

\* create_directory, from the end: "." and ".." are saved and the directory
\* is cached
create_directory_save(st, dir_inode, parent_inode) ==
    CHOOSE y \in {
        IF ~sv.ok THEN [ok |-> FALSE, st |-> delete_inode(sv.st, dir_inode).st]
        ELSE [ok |-> TRUE,
              st |-> cache_directory(sv.st, dir_inode,
                         <<DirEntry(".", dir_inode, FS_DIRECTORY),
                           DirEntry("..", parent_inode, FS_DIRECTORY)>>)]
      : sv \in {save_directory_content(st, dir_inode,
                    <<DirEntry(".", dir_inode, FS_DIRECTORY),
                      DirEntry("..", parent_inode, FS_DIRECTORY)>>)}} : TRUE

\* the inode is created and read back
create_directory_inode(st, parent_inode, name) ==
    CHOOSE y \in {
        IF ci.ret = 0 - 1 THEN [ok |-> FALSE, st |-> ci.st]
        ELSE IF ~read_inode(ci.st, ci.ret).ok
        THEN [ok |-> FALSE, st |-> delete_inode(ci.st, ci.ret).st]
        ELSE create_directory_save(ci.st, ci.ret, parent_inode)
      : ci \in {create_inode(st, parent_inode, FS_DIRECTORY, name, 0)}} : TRUE

\* the name must not exist in the parent
create_directory_in(st, parent_inode, name) ==
    CHOOSE y \in {
        IF f.id # 0 - 1 THEN [ok |-> FALSE, st |-> f.st]
        ELSE create_directory_inode(f.st, parent_inode, name)
      : f \in {find_inode(st, parent_inode, name)}} : TRUE

create_directory(st, parent_path, name) ==
    CHOOSE y \in {
        IF rp.id = 0 - 1 THEN [ok |-> FALSE, st |-> rp.st]
        ELSE create_directory_in(rp.st, rp.id, name)
      : rp \in {resolve_path(st, parent_path)}} : TRUE

\* a path resolved to an inode that is read and is of the type asked for
IsA(st, inode_id, type) ==
    CHOOSE y \in {r.ok /\ r.node.type = type : r \in {read_inode(st, inode_id)}} : TRUE

read_file(st, path) ==
    CHOOSE y \in {
        IF rp.id = 0 - 1 \/ ~IsA(rp.st, rp.id, FS_FILE)
        THEN [ok |-> FALSE, content |-> << >>]
        ELSE read_file_data(rp.st, rp.id)
      : rp \in {resolve_path(st, path)}} : TRUE

\* write_file, after the path is resolved
write_file_resized(st, inode_id, content) ==
    CHOOSE y \in {
        IF ~rs.ok THEN [ok |-> FALSE, st |-> rs.st]
        ELSE write_file_data(rs.st, inode_id, content)
      : rs \in {resize_inode(st, inode_id, Len(content))}} : TRUE

write_file(st, path, content) ==
    CHOOSE y \in {
        IF rp.id = 0 - 1 \/ ~IsA(rp.st, rp.id, FS_FILE)
        THEN [ok |-> FALSE, st |-> rp.st]
        ELSE write_file_resized(rp.st, rp.id, content)
      : rp \in {resolve_path(st, path)}} : TRUE

\* the FileInfo fields the facade reads; a default FileInfo has inode_id 0
InfoOf(st, inode_id) ==
    CHOOSE y \in {
        IF inode_id = 0 - 1 \/ ~r.ok
        THEN [inode_id |-> 0, is_directory |-> FALSE, st |-> st]
        ELSE [inode_id |-> r.node.id, is_directory |-> r.node.type = FS_DIRECTORY,
              st |-> st]
      : r \in {read_inode(st, inode_id)}} : TRUE

get_file_info(st, path) ==
    CHOOSE y \in {InfoOf(rp.st, rp.id) : rp \in {resolve_path(st, path)}} : TRUE

\* the names list_directory returns: the entries whose inode can be read
Readable(st, entries) == SelectSeq(entries, LAMBDA e : read_inode(st, e.inode_id).ok)
list_directory(st, normalized) ==
    CHOOSE y \in {
        IF rp.id = 0 - 1 THEN << >>
        ELSE CHOOSE z \in {
                 IF ~g.ok THEN << >>
                 ELSE [i \in 1 .. Len(Readable(g.st, g.e)) |->
                          Readable(g.st, g.e)[i].name]
               : g \in {get_directory(rp.st, rp.id)}} : TRUE
      : rp \in {resolve_path(st, normalized)}} : TRUE

delete_file(st, path) ==
    CHOOSE y \in {
        IF rp.id = 0 - 1 \/ ~IsA(rp.st, rp.id, FS_FILE)
        THEN [ok |-> FALSE, st |-> rp.st]
        ELSE delete_inode(rp.st, rp.id)
      : rp \in {resolve_path(st, path)}} : TRUE

\* deep: the recursion went deeper than the number of inodes, that is, the
\* directories on the way form a cycle and the recursion does not end
RECURSIVE delete_directory_recursive(_, _, _)
RECURSIVE DeleteEntries(_, _, _, _)

\* one child: a directory is deleted recursively, anything else as an inode
DeleteChild(st, inode_id, fuel) ==
    IF IsA(st, inode_id, FS_DIRECTORY)
    THEN delete_directory_recursive(st, inode_id, fuel - 1)
    ELSE CHOOSE y \in {[ok |-> d.ok, st |-> d.st, deep |-> FALSE]
                       : d \in {delete_inode(st, inode_id)}} : TRUE

\* the loop over the entries left out
DeleteEntries_skipped(st, entries, i, fuel) == [ok |-> TRUE, st |-> st, deep |-> FALSE]

DeleteEntries(st, entries, i, fuel) ==
    IF i > Len(entries) THEN [ok |-> TRUE, st |-> st, deep |-> FALSE]
    ELSE IF entries[i].name = "." \/ entries[i].name = ".."
    THEN DeleteEntries(st, entries, i + 1, fuel)
    ELSE IF ~read_inode(st, entries[i].inode_id).ok
    THEN DeleteEntries(st, entries, i + 1, fuel)
    ELSE CHOOSE y \in {
             IF ~d.ok THEN d ELSE DeleteEntries(d.st, entries, i + 1, fuel)
           : d \in {DeleteChild(st, entries[i].inode_id, fuel)}} : TRUE

\* the entries are deleted, then the directory itself
DeleteListed(st, dir_id, entries, fuel) ==
    CHOOSE y \in {
        IF ~d.ok THEN d
        ELSE CHOOSE z \in {[ok |-> di.ok, st |-> di.st, deep |-> FALSE]
                           : di \in {delete_inode(d.st, dir_id)}} : TRUE
      : d \in {DeleteEntries(st, entries, 1, fuel)}} : TRUE

delete_directory_recursive(st, dir_id, fuel) ==
    IF fuel = 0 THEN [ok |-> FALSE, st |-> st, deep |-> TRUE]
    ELSE IF dir_id = ROOT_INODE_ID THEN [ok |-> FALSE, st |-> st, deep |-> FALSE]
    ELSE CHOOSE y \in {
             IF ~g.ok THEN [ok |-> FALSE, st |-> g.st, deep |-> FALSE]
             ELSE DeleteListed(g.st, dir_id, g.e, fuel)
           : g \in {get_directory(st, dir_id)}} : TRUE

delete_directory(st, path) ==
    CHOOSE y \in {
        IF rp.id = 0 - 1 \/ ~IsA(rp.st, rp.id, FS_DIRECTORY)
        THEN [ok |-> FALSE, st |-> rp.st, deep |-> FALSE]
        ELSE IF rp.id = ROOT_INODE_ID
        THEN [ok |-> FALSE, st |-> rp.st, deep |-> FALSE]
        ELSE delete_directory_recursive(rp.st, rp.id, MaxInodes)
      : rp \in {resolve_path(st, path)}} : TRUE

(***************************************************************************)
(* SimpleFileSystem (src/src/filesystem.cpp).  The paths and names handed  *)
(* to it are normalized and valid.                                         *)
(***************************************************************************)
St == [disk |-> disk, bm |-> BM, impl |-> bmImpl, used |-> inode_used_,
       cnt |-> inode_count_, dc |-> directory_cache_]

\* a FreeBitmap just constructed
FreshBitmap == [total |-> 0, bits |-> [n \in Blocks |-> FALSE], free |-> 0]
\* an INodeManager just constructed
NoInodeUsed == [i \in 0 .. (MaxInodes - 1) |-> FALSE]

\* bitmap_->load(disk_.get())
LoadBitmap(impl, d) ==
    IF impl = "core" THEN load(FreshBitmap, TotalBlocks, d[0])
                     ELSE load_p012(FreshBitmap, TotalBlocks, d[0])

\* a normalized path as the string the calls are handed: "/" for the root,
\* else "/" and a name per component (the names are single characters)
RECURSIVE PathString(_)
PathString(path) ==
    IF path = << >> THEN <<"/">>
    ELSE IF Len(path) = 1 THEN <<"/", path[1]>>
    ELSE PathString(Front(path)) \o <<"/", Last(path)>>

\* file_path.find(normalized) == 0
StartsWith(file_path, normalized) ==
    /\ Len(normalized) <= Len(file_path)
    /\ SubSeq(file_path, 1, Len(normalized)) = normalized

is_file_protected(of, path) == path \in DOMAIN of /\ of[path] > 0

fs_create_file(of, st, normalized, content) ==
    IF is_file_protected(of, normalized) THEN [ret |-> 0 - 3, st |-> st]
    ELSE CHOOSE y \in {[ret |-> IF c.ok THEN 0 ELSE 0 - 4, st |-> c.st]
                       : c \in {create_file(st, normalized, content)}} : TRUE

fs_delete_file(of, st, normalized) ==
    IF is_file_protected(of, normalized) THEN [ret |-> 0 - 2, st |-> st]
    ELSE CHOOSE y \in {
        IF info.inode_id = 0 \/ info.is_directory THEN [ret |-> 0 - 3, st |-> info.st]
        ELSE CHOOSE z \in {[ret |-> IF d.ok THEN 0 ELSE 0 - 4, st |-> d.st]
                           : d \in {delete_file(info.st, normalized)}} : TRUE
      : info \in {get_file_info(st, normalized)}} : TRUE

fs_write_file(of, st, path, content) ==
    IF is_file_protected(of, path) THEN [ret |-> 0 - 2, st |-> st]
    ELSE CHOOSE y \in {
        IF info.inode_id = 0 THEN fs_create_file(of, info.st, path, content)
        ELSE CHOOSE z \in {[ret |-> IF w.ok THEN 0 ELSE 0 - 3, st |-> w.st]
                           : w \in {write_file(info.st, path, content)}} : TRUE
      : info \in {get_file_info(st, path)}} : TRUE

fs_create_directory(st, parent_path, name) ==
    CHOOSE y \in {[ret |-> IF c.ok THEN 0 ELSE 0 - 3, st |-> c.st]
                  : c \in {create_directory(st, parent_path, name)}} : TRUE

fs_delete_directory(of, st, normalized) ==
    CHOOSE y \in {
        IF info.inode_id = 0 \/ ~info.is_directory
        THEN [ret |-> 0 - 2, st |-> info.st, deep |-> FALSE]
        ELSE IF \E file_path \in DOMAIN of :
                    StartsWith(PathString(file_path), PathString(normalized))
        THEN [ret |-> 0 - 3, st |-> info.st, deep |-> FALSE]
        ELSE CHOOSE z \in {[ret |-> IF d.ok THEN 0 ELSE 0 - 4, st |-> d.st,
                            deep |-> d.deep]
                           : d \in {delete_directory(info.st, normalized)}} : TRUE
      : info \in {get_file_info(st, normalized)}} : TRUE

\* open_files_[normalized_path]++
Incremented(of, path) ==
    (path :> (IF path \in DOMAIN of THEN of[path] + 1 ELSE 1)) @@ of

\* it->second--, and the entry is erased at zero
Decremented(of, path) ==
    IF of[path] - 1 = 0 THEN [q \in (DOMAIN of) \ {path} |-> of[q]]
    ELSE [of EXCEPT ![path] = of[path] - 1]

open_file(of, st, path) ==
    CHOOSE y \in {
        IF info.inode_id = 0 THEN [ok |-> FALSE, of |-> of, st |-> info.st]
        ELSE [ok |-> TRUE, of |-> Incremented(of, path), st |-> info.st]
      : info \in {get_file_info(st, path)}} : TRUE

close_file(of, path) ==
    IF path \notin DOMAIN of THEN [ok |-> FALSE, of |-> of]
    ELSE IF of[path] <= 0 THEN [ok |-> FALSE, of |-> of]
    ELSE [ok |-> TRUE, of |-> Decremented(of, path)]

\* read_file: open_file, INodeManager::read_file, close_file.  The
\* directories INodeManager::read_file loads are those open_file has loaded.
fs_read_file(of, st, path) ==
    CHOOSE y \in {
        CHOOSE z \in {[ret |-> IF r.ok THEN 0 ELSE 0 - 2, content |-> r.content,
                       of |-> close_file(o.of, path).of, st |-> o.st]
                      : r \in {read_file(o.st, path)}} : TRUE
      : o \in {open_file(of, st, path)}} : TRUE

\* what a path holds, as the calls of the interface see it
DirMark == <<"dir">>
Missing == <<"missing">>
Unreadable == <<"unreadable">>
Shown(info, r) ==
    IF info.inode_id = 0 THEN Missing
    ELSE IF info.is_directory THEN DirMark
    ELSE IF r.ok THEN r.content ELSE Unreadable
LookUp(st, path) == Shown(get_file_info(st, path), read_file(st, path))

(***************************************************************************)
(* Specification SpecFs: a SimpleFileSystem object over one disk file,     *)
(* driven through format, mount, unmount and the file and directory calls. *)
(***************************************************************************)
Names == {"a", "b"}
PathsOf(n) == [1 .. n -> Names]
Paths == UNION {PathsOf(n) : n \in 1 .. MaxDepth}
ParentPaths == UNION {PathsOf(n) : n \in 0 .. (MaxDepth - 1)}
Units(n) == [i \in 1 .. n |-> "a"]
\* the contents written: empty, one unit, a block and a unit
Contents == {Units(0), Units(1), Units(BS + 1)}

IsPrefix(p, q) == Len(p) <= Len(q) /\ SubSeq(q, 1, Len(p)) = p
Forget(w, path) == [q \in {x \in DOMAIN w : ~IsPrefix(path, x)} |-> w[q]]
Record(w, path, v) == (path :> v) @@ w

InitFs ==
    /\ bmImpl \in {"core", "p012"}
    /\ total_blocks_ = 0
    /\ free_blocks_ = 0
    /\ bitmap_ = [n \in Blocks |-> FALSE]
    /\ bmLast = [op |-> "none", ok |-> TRUE, val |-> 0]
    /\ disk = [n \in Blocks |-> ZeroBlock]
    /\ stream_fail = FALSE
    /\ CacheUnused
    /\ formatted = FALSE
    /\ mounted_ = FALSE
    /\ inode_used_ = NoInodeUsed
    /\ inode_count_ = 0
    /\ directory_cache_ = << >>
    /\ open_files_ = << >>
    /\ net_opens = << >>
    /\ written = << >>
    /\ fsLast = [op |-> "ctor", ret |-> 0]
    /\ calls = 0
    /\ plain = TRUE
    /\ AuxUnused

\* format: VirtualDisk::create writes a file of zero blocks
Format ==
    /\ mounted_ => calls < MaxCalls
    /\ fsLast' = [op |-> "format", ret |-> IF mounted_ THEN 0 ELSE 1]
    /\ disk' = IF mounted_ THEN disk ELSE [n \in Blocks |-> ZeroBlock]
    /\ formatted' = (formatted \/ ~mounted_)
    /\ written' = IF mounted_ THEN written ELSE << >>
    /\ calls' = IF mounted_ THEN calls + 1 ELSE 0
    /\ plain' = (plain \/ ~mounted_)
    /\ UNCHANGED <<mounted_, total_blocks_, free_blocks_, bitmap_, inode_used_,
                   inode_count_, directory_cache_, open_files_, net_opens, fsOthers>>

\* mount without the test of mounted_
Mount_unguarded ==
    calls < MaxCalls /\
    \E cr \in {create_root_directory(
                   [disk |-> disk, bm |-> LoadBitmap(bmImpl, disk), impl |-> bmImpl,
                    used |-> NoInodeUsed, cnt |-> 0, dc |-> << >>])} :
    \E ok \in {formatted /\ cr.ok} :
    /\ calls' = calls + 1
    /\ plain' = (plain /\ ok)
    /\ fsLast' = [op |-> "mount", ret |-> IF ok THEN 1 ELSE 0]
    /\ disk' = IF formatted THEN cr.st.disk ELSE disk
    /\ mounted_' = (mounted_ \/ ok)
    /\ total_blocks_' = IF ok THEN cr.st.bm.total ELSE total_blocks_
    /\ free_blocks_' = IF ok THEN cr.st.bm.free ELSE free_blocks_
    /\ bitmap_' = IF ok THEN cr.st.bm.bits ELSE bitmap_
    /\ inode_used_' = IF ok THEN cr.st.used ELSE inode_used_
    /\ inode_count_' = IF ok THEN cr.st.cnt ELSE inode_count_
    /\ directory_cache_' = IF ok THEN cr.st.dc ELSE directory_cache_
    /\ UNCHANGED <<formatted, open_files_, net_opens, written, fsOthers>>

\* mount: a new FreeBitmap loaded from the device, a new INodeManager, and
\* create_root_directory(); a failure drops the objects again
Mount ==
    calls < MaxCalls /\
    \E cr \in {create_root_directory(
                   [disk |-> disk, bm |-> LoadBitmap(bmImpl, disk), impl |-> bmImpl,
                    used |-> NoInodeUsed, cnt |-> 0, dc |-> << >>])} :
    \E ok \in {~mounted_ /\ formatted /\ cr.ok} :
    /\ calls' = calls + 1
    /\ plain' = (plain /\ ok)
    /\ fsLast' = [op |-> "mount", ret |-> IF ok THEN 1 ELSE 0]
    /\ disk' = IF ~mounted_ /\ formatted THEN cr.st.disk ELSE disk
    /\ mounted_' = (mounted_ \/ ok)
    /\ total_blocks_' = IF ok THEN cr.st.bm.total ELSE total_blocks_
    /\ free_blocks_' = IF ok THEN cr.st.bm.free ELSE free_blocks_
    /\ bitmap_' = IF ok THEN cr.st.bm.bits ELSE bitmap_
    /\ inode_used_' = IF ok THEN cr.st.used ELSE inode_used_
    /\ inode_count_' = IF ok THEN cr.st.cnt ELSE inode_count_
    /\ directory_cache_' = IF ok THEN cr.st.dc ELSE directory_cache_
    /\ UNCHANGED <<formatted, open_files_, net_opens, written, fsOthers>>

\* unmount: the bitmap is saved to block 0 and the objects are dropped
Unmount ==
    /\ calls < MaxCalls
    /\ calls' = calls + 1
    /\ plain' = plain
    /\ fsLast' = [op |-> "unmount", ret |-> 0]
    /\ disk' = IF mounted_ THEN [disk EXCEPT ![0] = save(BM)] ELSE disk
    /\ mounted_' = FALSE
    /\ total_blocks_' = IF mounted_ THEN FreshBitmap.total ELSE total_blocks_
    /\ free_blocks_' = IF mounted_ THEN FreshBitmap.free ELSE free_blocks_
    /\ bitmap_' = IF mounted_ THEN FreshBitmap.bits ELSE bitmap_
    /\ inode_used_' = IF mounted_ THEN NoInodeUsed ELSE inode_used_
    /\ inode_count_' = IF mounted_ THEN 0 ELSE inode_count_
    /\ directory_cache_' = IF mounted_ THEN << >> ELSE directory_cache_
    /\ open_files_' = IF mounted_ THEN << >> ELSE open_files_
    /\ net_opens' = IF mounted_ THEN << >> ELSE net_opens
    /\ UNCHANGED <<formatted, written, fsOthers>>

CreateFile(normalized, content) ==
    calls < MaxCalls /\
    \E r \in {IF mounted_ THEN fs_create_file(open_files_, St, normalized, content)
                            ELSE [ret |-> 0 - 1, st |-> St]} :
    /\ calls' = calls + 1
    /\ plain' = (plain /\ r.ret = 0)
    /\ fsLast' = [op |-> "create_file", ret |-> r.ret]
    /\ written' = IF r.ret = 0 THEN Record(written, normalized, content) ELSE written
    /\ disk' = r.st.disk
    /\ total_blocks_' = r.st.bm.total
    /\ free_blocks_' = r.st.bm.free
    /\ bitmap_' = r.st.bm.bits
    /\ inode_used_' = r.st.used
    /\ inode_count_' = r.st.cnt
    /\ directory_cache_' = r.st.dc
    /\ UNCHANGED <<formatted, mounted_, open_files_, net_opens, fsOthers>>

WriteFile(path, content) ==
    calls < MaxCalls /\
    \E r \in {IF mounted_ THEN fs_write_file(open_files_, St, path, content)
                            ELSE [ret |-> 0 - 1, st |-> St]} :
    /\ calls' = calls + 1
    /\ plain' = (plain /\ r.ret = 0)
    /\ fsLast' = [op |-> "write_file", ret |-> r.ret]
    /\ written' = IF r.ret = 0 THEN Record(written, path, content) ELSE written
    /\ disk' = r.st.disk
    /\ total_blocks_' = r.st.bm.total
    /\ free_blocks_' = r.st.bm.free
    /\ bitmap_' = r.st.bm.bits
    /\ inode_used_' = r.st.used
    /\ inode_count_' = r.st.cnt
    /\ directory_cache_' = r.st.dc
    /\ UNCHANGED <<formatted, mounted_, open_files_, net_opens, fsOthers>>

CreateDirectory(parent_path, name) ==
    calls < MaxCalls /\
    \E r \in {IF mounted_ THEN fs_create_directory(St, parent_path, name)
                            ELSE [ret |-> 0 - 1, st |-> St]} :
    /\ calls' = calls + 1
    /\ plain' = (plain /\ r.ret = 0)
    /\ fsLast' = [op |-> "create_directory", ret |-> r.ret]
    /\ written' = IF r.ret = 0 THEN Record(written, Append(parent_path, name), DirMark)
                               ELSE written
    /\ disk' = r.st.disk
    /\ total_blocks_' = r.st.bm.total
    /\ free_blocks_' = r.st.bm.free
    /\ bitmap_' = r.st.bm.bits
    /\ inode_used_' = r.st.used
    /\ inode_count_' = r.st.cnt
    /\ directory_cache_' = r.st.dc
    /\ UNCHANGED <<formatted, mounted_, open_files_, net_opens, fsOthers>>

DeleteFile(normalized) ==
    calls < MaxCalls /\
    \E r \in {IF mounted_ THEN fs_delete_file(open_files_, St, normalized)
                            ELSE [ret |-> 0 - 1, st |-> St]} :
    /\ calls' = calls + 1
    /\ plain' = FALSE
    /\ fsLast' = [op |-> "delete_file", ret |-> r.ret]
    /\ written' = IF r.ret = 0 THEN Forget(written, normalized) ELSE written
    /\ disk' = r.st.disk
    /\ total_blocks_' = r.st.bm.total
    /\ free_blocks_' = r.st.bm.free
    /\ bitmap_' = r.st.bm.bits
    /\ inode_used_' = r.st.used
    /\ inode_count_' = r.st.cnt
    /\ directory_cache_' = r.st.dc
    /\ UNCHANGED <<formatted, mounted_, open_files_, net_opens, fsOthers>>

\* a recursion that does not end is not a step
DeleteDirectory(normalized) ==
    calls < MaxCalls /\
    \E r \in {IF mounted_ THEN fs_delete_directory(open_files_, St, normalized)
                            ELSE [ret |-> 0 - 1, st |-> St, deep |-> FALSE]} :
    /\ ~r.deep
    /\ calls' = calls + 1
    /\ plain' = FALSE
    /\ fsLast' = [op |-> "delete_directory", ret |-> r.ret]
    /\ written' = IF r.ret = 0 THEN Forget(written, normalized) ELSE written
    /\ disk' = r.st.disk
    /\ total_blocks_' = r.st.bm.total
    /\ free_blocks_' = r.st.bm.free
    /\ bitmap_' = r.st.bm.bits
    /\ inode_used_' = r.st.used
    /\ inode_count_' = r.st.cnt
    /\ directory_cache_' = r.st.dc
    /\ UNCHANGED <<formatted, mounted_, open_files_, net_opens, fsOthers>>

\* the net count of a path that has none is 0
NetOf(net, path) == IF path \in DOMAIN net THEN net[path] ELSE 0
Counted(net, path, by) ==
    IF NetOf(net, path) + by = 0 THEN [q \in (DOMAIN net) \ {path} |-> net[q]]
    ELSE (path :> (NetOf(net, path) + by)) @@ net

OpenFile(path) ==
    calls < MaxCalls /\
    \E r \in {IF mounted_ THEN open_file(open_files_, St, path)
                            ELSE [ok |-> FALSE, of |-> open_files_, st |-> St]} :
    /\ calls' = calls + 1
    /\ plain' = FALSE
    /\ fsLast' = [op |-> "open_file", ret |-> IF r.ok THEN 1 ELSE 0]
    /\ open_files_' = r.of
    /\ net_opens' = IF r.ok THEN Counted(net_opens, path, 1) ELSE net_opens
    /\ directory_cache_' = r.st.dc
    /\ UNCHANGED <<formatted, mounted_, disk, total_blocks_, free_blocks_, bitmap_,
                   inode_used_, inode_count_, written, fsOthers>>

CloseFile(path) ==
    calls < MaxCalls /\
    \E r \in {IF mounted_ THEN close_file(open_files_, path)
                            ELSE [ok |-> FALSE, of |-> open_files_]} :
    /\ calls' = calls + 1
    /\ plain' = FALSE
    /\ fsLast' = [op |-> "close_file", ret |-> IF r.ok THEN 1 ELSE 0]
    /\ open_files_' = r.of
    /\ net_opens' = IF r.ok THEN Counted(net_opens, path, 0 - 1) ELSE net_opens
    /\ UNCHANGED <<formatted, mounted_, disk, total_blocks_, free_blocks_, bitmap_,
                   inode_used_, inode_count_, directory_cache_, written, fsOthers>>

ReadFile(path) ==
    calls < MaxCalls /\
    \E r \in {IF mounted_ THEN fs_read_file(open_files_, St, path)
                            ELSE [ret |-> 0 - 1, content |-> << >>,
                                  of |-> open_files_, st |-> St]} :
    /\ calls' = calls + 1
    /\ plain' = FALSE
    /\ fsLast' = [op |-> "read_file", ret |-> r.ret]
    /\ open_files_' = r.of
    /\ directory_cache_' = r.st.dc
    /\ UNCHANGED <<formatted, mounted_, disk, total_blocks_, free_blocks_, bitmap_,
                   inode_used_, inode_count_, net_opens, written, fsOthers>>

NextFs ==
    \/ Format
    \/ Mount
    \/ Unmount
    \/ \E p \in Paths, c \in Contents : CreateFile(p, c)
    \/ \E p \in Paths, c \in Contents : WriteFile(p, c)
    \/ \E p \in ParentPaths, n \in Names : CreateDirectory(p, n)
    \/ \E p \in Paths : DeleteFile(p)
    \/ \E p \in Paths \cup {<< >>} : DeleteDirectory(p)
    \/ \E p \in Paths : OpenFile(p)
    \/ \E p \in Paths : CloseFile(p)
    \/ \E p \in Paths : ReadFile(p)

SpecFs == InitFs /\ [][NextFs]_vars

(***************************************************************************)
(* Properties of the file system.                                          *)
(***************************************************************************)
UsedIds == {i \in 0 .. (MaxInodes - 1) : inode_used_[i]}
\* the record read_inode returns for an allocated inode
NodeOf(i) == SlotRec(disk[TableBlock(i)], i % INODES_PER_BLOCK)
\* the first block after the inode table
DataStart == TableBlock(MaxInodes - 1) + 1

Disjoint(m, n) ==
    \/ m.block_count = 0
    \/ n.block_count = 0
    \/ m.start_block + m.block_count <= n.start_block
    \/ n.start_block + n.block_count <= m.start_block

\* C1: after every completed call on a mounted file system the extents
\* [start_block, start_block + block_count) of any two distinct allocated
\* inodes are disjoint.
C1_ExtentsDisjoint ==
    mounted_ =>
        \A i \in UsedIds : \A j \in UsedIds \ {i} : Disjoint(NodeOf(i), NodeOf(j))

\* C2: after every completed call on a mounted file system the extent of every
\* allocated inode starts after the bitmap block and the inode table, ends at
\* or below total_blocks_, and every block of it is marked in the bitmap.
C2_ExtentsInDataRegion ==
    mounted_ =>
        \A i \in UsedIds :
            LET n == NodeOf(i) IN
            /\ n.start_block >= DataStart
            /\ n.start_block + n.block_count <= total_blocks_
            /\ \A b \in n.start_block .. (n.start_block + n.block_count - 1) :
                   b \in Blocks /\ bitmap_[b]

\* C3: when, after a format, only mounts, unmounts and successful create and
\* write calls were made, then after a mount every path holds what was last
\* written to it, and the paths never written do not exist.
C3_PersistsAcrossRemount ==
    (plain /\ mounted_ /\ fsLast.op = "mount") =>
        \A p \in Paths :
            LookUp(St, p) = IF p \in DOMAIN written THEN written[p] ELSE Missing

\* the root directory's record, as it sits in the inode table of a device
RootRecord(d) == SlotRec(d[TableBlock(ROOT_INODE_ID)], ROOT_INODE_ID % INODES_PER_BLOCK)
RootPresent(d) ==
    /\ RootRecord(d).id = ROOT_INODE_ID
    /\ RootRecord(d).type = FS_DIRECTORY
    /\ RootRecord(d).name = "/"
\* the root directory's entries, as they sit on a device
RootEntries(d) ==
    IF DiskOk(FALSE, RootRecord(d).start_block)
    THEN Deserialize(d[RootRecord(d).start_block], RootRecord(d).size)
    ELSE [ok |-> FALSE, e |-> << >>]

\* C4: a mount of an image whose inode table holds the root directory leaves
\* the root's record and the root's entries on the device as they were, and
\* the bitmap in memory holds the bits the image holds.
C4_MountKeepsRoot ==
    [][(Mount /\ ~mounted_ /\ formatted /\ RootPresent(disk)) =>
          /\ RootRecord(disk') = RootRecord(disk)
          /\ RootEntries(disk') = RootEntries(disk)
          /\ mounted_' => bitmap_' = LoadBitmap(bmImpl, disk).bits]_vars


(***************************************************************************)
(* Properties of the open-file reference counts.                           *)
(***************************************************************************)
\* what a refused call must leave alone
FsState == <<disk, total_blocks_, free_blocks_, bitmap_, inode_used_, inode_count_,
             directory_cache_, open_files_>>

Range(seq) == {seq[i] : i \in DOMAIN seq}
IsOpen(path) == path \in DOMAIN open_files_
\* the path resolves to an inode the inode manager reads as a regular file
IsRegularFile(st, path) ==
    resolve_path(st, path).id # 0 - 1 /\ IsA(st, resolve_path(st, path).id, FS_FILE)

\* C11: while a path p is open, create_file(p), write_file(p) and
\* delete_file(p) return their "busy" code and change nothing, and so does
\* delete_directory on every directory whose path is a prefix of p; and when a
\* close_file takes the count of a regular file p to zero, delete_file(p)
\* returns 0 and the listing of p's parent no longer holds p's name.
C11_BusyWhileOpen ==
    [][\A p \in Paths :
          /\ (mounted_ /\ IsOpen(p)) =>
                /\ \A c \in Contents :
                      CreateFile(p, c) => (fsLast'.ret = 0 - 3 /\ UNCHANGED FsState)
                /\ \A c \in Contents :
                      WriteFile(p, c) => (fsLast'.ret = 0 - 2 /\ UNCHANGED FsState)
                /\ DeleteFile(p) => (fsLast'.ret = 0 - 2 /\ UNCHANGED FsState)
                /\ \A d \in Paths \cup {<< >>} :
                      (/\ IsPrefix(d, p)
                       /\ get_file_info(St, d).inode_id # 0
                       /\ get_file_info(St, d).is_directory
                       /\ DeleteDirectory(d))
                      => (fsLast'.ret = 0 - 3 /\ UNCHANGED FsState)
          /\ (/\ mounted_ /\ IsOpen(p)
              /\ CloseFile(p)
              /\ ~IsOpen(p)'
              /\ IsRegularFile(St, p))
             => /\ fs_delete_file(open_files_', St', p).ret = 0
                /\ Last(p) \notin
                       Range(list_directory(fs_delete_file(open_files_', St', p).st,
                                            Front(p)))]_vars

\* C12: after every call the open-file map holds for each path the number of
\* open_file calls that returned true minus the number of close_file calls
\* that did, with no entry for a path where that number is zero and no entry
\* <= 0; a close_file on a path that has no entry returns false and leaves the
\* map alone; and a read_file leaves the map as it was.
C12_OpenCounts ==
    [][/\ \A p \in Paths : NetOf(open_files_', p) = NetOf(net_opens', p)
       /\ \A p \in DOMAIN open_files_' : open_files_'[p] > 0
       /\ \A p \in Paths :
              (mounted_ /\ CloseFile(p) /\ ~IsOpen(p))
              => (fsLast'.ret = 0 /\ open_files_' = open_files_)
       /\ \A p \in Paths :
              (mounted_ /\ ReadFile(p)) => open_files_' = open_files_]_vars


(***************************************************************************)
(* Properties of the mount lifecycle.                                      *)
(***************************************************************************)
\* the calls that return an int, and those that return a bool
IntCalls == {"create_file", "write_file", "delete_file", "read_file",
             "create_directory", "delete_directory"}
BoolCalls == {"open_file", "close_file"}
\* the facade and its components, with the disk file
Mounted == <<FsState, mounted_, formatted>>

\* C13: format and mount return true only when the facade was not mounted,
\* and when called while mounted they return false and change nothing; after
\* a format that returned true the facade is not mounted; every file or
\* directory call made while not mounted fails (-1, or false) and changes
\* nothing; a mount that fails leaves the facade as mounted as it was, that
\* is, not mounted when it was not; an unmount leaves the facade not mounted
\* with an empty open-file map.
C13_MountLifecycle ==
    [][/\ (fsLast'.op \in {"format", "mount"} /\ fsLast'.ret = 1) => ~mounted_
       /\ (fsLast'.op \in {"format", "mount"} /\ mounted_)
          => (fsLast'.ret = 0 /\ UNCHANGED Mounted)
       /\ (fsLast'.op = "format" /\ fsLast'.ret = 1) => ~mounted_'
       /\ (fsLast'.op \in IntCalls /\ ~mounted_)
          => (fsLast'.ret = 0 - 1 /\ UNCHANGED Mounted)
       /\ (fsLast'.op \in BoolCalls /\ ~mounted_)
          => (fsLast'.ret = 0 /\ UNCHANGED Mounted)
       /\ (fsLast'.op = "mount" /\ fsLast'.ret = 0) => (mounted_' = mounted_)
       /\ (fsLast'.op = "mount" /\ fsLast'.ret = 1) => mounted_'
       /\ (fsLast'.op = "unmount") => (~mounted_' /\ open_files_' = << >>)
       /\ ~mounted_' => open_files_' = << >>]_vars

\* a mount was refused on a mounted file system that has a file open
C13_Witness ==
    /\ mounted_
    /\ fsLast = [op |-> "mount", ret |-> 0]
    /\ open_files_ # << >>


(***************************************************************************)
(* Properties of delete_directory.                                         *)
(***************************************************************************)
\* the inode ids in the entries of a directory other than "." and ".."
ChildIds(st, dir_id) ==
    {e.inode_id : e \in {x \in Range(get_directory(st, dir_id).e) :
                            x.name # "." /\ x.name # ".."}}

\* the inodes below a directory, to a depth of fuel
RECURSIVE Below(_, _, _)
Below(st, dir_id, fuel) ==
    IF fuel = 0 THEN {}
    ELSE ChildIds(st, dir_id) \cup
         UNION {Below(st, c, fuel - 1) :
                   c \in {x \in ChildIds(st, dir_id) : IsA(st, x, FS_DIRECTORY)}}

ExtentOf(node) == {b \in Blocks : /\ node.start_block <= b
                                  /\ b < node.start_block + node.block_count}

\* what a delete_directory(d) that returned 0 has done, st being the state
\* before the call and id the inode d resolved to
Deleted(st, d, id) ==
    /\ \A c \in Below(st, id, MaxInodes) :
           /\ ~inode_used_'[c]
           /\ st.used[c] => \A b \in ExtentOf(read_inode(st, c).node) : ~bitmap_'[b]
    /\ \A b \in ExtentOf(read_inode(st, id).node) : ~bitmap_'[b]
    /\ Last(d) \notin Range(list_directory(St', Front(d)))
    /\ ~inode_used_'[id]
    \* "." and ".." were not followed
    /\ inode_used_'[resolve_path(st, Front(d)).id]
    /\ inode_used_'[ROOT_INODE_ID]

SameCounts(s, t) == s.bm = t.bm /\ s.used = t.used /\ s.cnt = t.cnt

\* st after delete_file(p)
AfterDelete(st, p) == {fs_delete_file(open_files_, st, p).st}
\* st after create_file(p, c) when the call returns 0, else no state
AfterCreate(st, p, c) ==
    {r.st : r \in {x \in {fs_create_file(open_files_, st, p, c)} : x.ret = 0}}

\* C15: in every state of a mounted file system, creating one file or two,
\* every create_file returning 0, and then calling delete_file on what was
\* created gives back the bitmap (bits and free count), inode_used_ and
\* inode_count_ of that state.
C15_CreateDeleteRestores ==
    mounted_ =>
        \A p \in Paths : \A c \in Contents :
            \A s1 \in AfterCreate(St, p, c) :
                /\ \A s2 \in AfterDelete(s1, p) : SameCounts(s2, St)
                /\ calls <= 2 =>
                      \A q \in Paths \ {p} : \A s2 \in AfterCreate(s1, q, c) :
                          /\ \A s3 \in AfterDelete(s2, p) :
                                \A s4 \in AfterDelete(s3, q) : SameCounts(s4, St)
                          /\ \A s3 \in AfterDelete(s2, q) :
                                \A s4 \in AfterDelete(s3, p) : SameCounts(s4, St)


\* the bitmap, the used-slot vector and the inode count
Allocation == <<total_blocks_, free_blocks_, bitmap_, inode_used_, inode_count_>>
\* the entries of the directory a path names, << >> when there is none
EntriesAt(st, path) ==
    IF resolve_path(st, path).id = 0 - 1 THEN << >>
    ELSE get_directory(st, resolve_path(st, path).id).e

\* C16: a create_file or create_directory call on a mounted file system that
\* does not return 0 leaves the bitmap, inode_used_, inode_count_ and the
\* entries of the parent directory as they were before the call.
C16_FailedCreateRollsBack ==
    [][/\ \A p \in Paths : \A c \in Contents :
              (mounted_ /\ CreateFile(p, c) /\ fsLast'.ret # 0)
              => /\ UNCHANGED Allocation
                 /\ EntriesAt(St', Front(p)) = EntriesAt(St, Front(p))
       /\ \A pp \in ParentPaths : \A n \in Names :
              (mounted_ /\ CreateDirectory(pp, n) /\ fsLast'.ret # 0)
              => /\ UNCHANGED Allocation
                 /\ EntriesAt(St', pp) = EntriesAt(St, pp)]_vars


\* C17: a create_file call that returns 0 has created an inode and an entry:
\* one more slot is marked used, inode_count_ is one higher and the parent
\* directory lists the name; when the extent cannot be allocated or the
\* record cannot be written the call does not return 0.
C17_CreateReportsFailure ==
    [][\A p \in Paths : \A c \in Contents :
           (mounted_ /\ CreateFile(p, c) /\ fsLast'.ret = 0)
           => /\ inode_count_' = inode_count_ + 1
              /\ \E i \in 1..(MaxInodes - 1) : ~inode_used_[i] /\ inode_used_'[i]
              /\ \E i \in 1..Len(EntriesAt(St', Front(p))) :
                     EntriesAt(St', Front(p))[i].name = Last(p)]_vars


\* the size field of the record a path resolves to, -1 when there is none
SizeAt(st, path) ==
    IF resolve_path(st, path).id = 0 - 1 THEN 0 - 1
    ELSE IF ~read_inode(st, resolve_path(st, path).id).ok THEN 0 - 1
    ELSE read_inode(st, resolve_path(st, path).id).node.size
\* read_file(path) returns 0 and the content c, and the record's size is Len(c)
ReadsBack(of, st, path, c) ==
    /\ fs_read_file(of, st, path).ret = 0
    /\ fs_read_file(of, st, path).content = c
    /\ SizeAt(st, path) = Len(c)

\* C18: after a create_file(p, c) or write_file(p, c) that returns 0, for
\* every content c, the empty one included, read_file(p) returns exactly c
\* and the size recorded for p is the length of c.
C18_WriteReadRoundTrip ==
    [][\A p \in Paths : \A c \in Contents :
           (mounted_ /\ (CreateFile(p, c) \/ WriteFile(p, c)) /\ fsLast'.ret = 0)
           => ReadsBack(open_files_', St', p, c)]_vars


\* the directories in use: the root, and the used slots whose record is a
\* directory or whose directory object is cached
AllocatedDirs(st) ==
    {i \in 1 .. (MaxInodes - 1) :
        st.used[i] /\ (i = ROOT_INODE_ID \/ Cached(st, i) \/ IsA(st, i, FS_DIRECTORY))}
\* the positions of the entries of a directory that carry a name
Named(entries, name) == {i \in 1 .. Len(entries) : entries[i].name = name}

C20_EntriesPointToChildren ==
    mounted_ =>
        \A d \in AllocatedDirs(St) :
            \A i \in 1 .. Len(get_directory(St, d).e) :
                get_directory(St, d).e[i].name \notin {".", ".."}
                => /\ get_directory(St, d).e[i].inode_id \in 1 .. (MaxInodes - 1)
                   /\ inode_used_[get_directory(St, d).e[i].inode_id]
                   /\ read_inode(St, get_directory(St, d).e[i].inode_id).ok
                   /\ read_inode(St, get_directory(St, d).e[i].inode_id).node.parent_id = d


(***************************************************************************)
(* Specification SpecPath: the current directory of a SimpleFileSystem and *)
(* SimpleFileSystem::normalize_path (src/src/filesystem.cpp).  A string is *)
(* a sequence of characters.                                               *)
(***************************************************************************)
MaxPathLen == 3
\* the longest current directory: the depth of the directory tree is bounded
MaxCwdLen == 6
Chars == {"/", ".", "d"}
StringsOf(n) == [1 .. n -> Chars]
\* the inputs of scenario S7, for the current directory /d1/d2
D1D2 == <<"/", "d", "1", "/", "d", "2">>
S7Inputs == {<<".">>, <<".", "/">>, <<".", ".", "/">>,
             <<".", ".", "/", ".", ".", "/">>, <<".", ".", "/", "d", "2">>,
             <<"/", "d", "1", "/", ".", "/", "d", "2", "/", ".", ".", "/", "d", "2">>}
PathInputs == UNION {StringsOf(n) : n \in 0 .. MaxPathLen} \cup S7Inputs \cup {D1D2}

\* the string the path is resolved from: the path itself when absolute, the
\* current directory when empty, otherwise current directory + "/" + path
full_path_of(cwd, path) ==
    IF path = << >> THEN cwd
    ELSE IF path[1] = "/" THEN path
    ELSE IF cwd = <<"/">> THEN <<"/">> \o path
    ELSE cwd \o <<"/">> \o path

\* the position of the first '/' of a string, Len + 1 when it has none
FirstSlash(str) ==
    IF \E i \in 1 .. Len(str) : str[i] = "/"
    THEN CHOOSE i \in 1 .. Len(str) :
            str[i] = "/" /\ \A j \in 1 .. (i - 1) : str[j] # "/"
    ELSE Len(str) + 1

\* the items std::getline(ss, item, '/') yields until the stream is at its end
RECURSIVE GetLines(_)
GetLines(str) ==
    IF str = << >> THEN << >>
    ELSE <<SubSeq(str, 1, FirstSlash(str) - 1)>>
         \o GetLines(SubSeq(str, FirstSlash(str) + 1, Len(str)))

\* the first item of a string that starts with '/' is read and dropped
ItemsOf(full_path) ==
    IF full_path # << >> /\ full_path[1] = "/" THEN Tail(GetLines(full_path))
    ELSE GetLines(full_path)

RECURSIVE Components(_, _)
\* the loop over the items with ".." kept as a name
Components_keepdots(items, components) ==
    IF items = << >> THEN components
    ELSE IF Head(items) = << >> \/ Head(items) = <<".">>
    THEN Components(Tail(items), components)
    ELSE Components(Tail(items), Append(components, Head(items)))
\* the loop over the items: empty items and "." are skipped, ".." pops
Components(items, components) ==
    IF items = << >> THEN components
    ELSE IF Head(items) = << >> \/ Head(items) = <<".">>
    THEN Components(Tail(items), components)
    ELSE IF Head(items) = <<".", ".">>
    THEN Components(Tail(items),
                    IF components # << >> THEN Front(components) ELSE components)
    ELSE Components(Tail(items), Append(components, Head(items)))

\* result += "/" + comp for every component
RECURSIVE Joined(_)
Joined(components) ==
    IF components = << >> THEN << >>
    ELSE <<"/">> \o Head(components) \o Joined(Tail(components))

normalize_path(cwd, path) ==
    IF Components(ItemsOf(full_path_of(cwd, path)), << >>) = << >> THEN <<"/">>
    ELSE Joined(Components(ItemsOf(full_path_of(cwd, path)), << >>))

\* what get_file_info reports for the target of a change_directory
Lookups == {"directory", "file", "none"}

InitPath ==
    /\ bmImpl = "none"
    /\ total_blocks_ = 0
    /\ free_blocks_ = 0
    /\ bitmap_ = <<>>
    /\ bmLast = [op |-> "none", ok |-> TRUE, val |-> 0]
    /\ disk = << >>
    /\ stream_fail = FALSE
    /\ CacheUnused
    /\ FsUnused
    /\ ClientsUnused
    /\ UnitsUnused
    /\ current_path_ = <<"/">>
    /\ npLast = [op |-> "ctor", path |-> << >>, result |-> << >>]

NormalizePath(path) ==
    /\ npLast' = [op |-> "normalize_path", path |-> path,
                  result |-> normalize_path(current_path_, path)]
    /\ UNCHANGED <<current_path_, pathOthers>>

\* change_directory on a mounted file system
ChangeDirectory(path, info) ==
    /\ info = "directory" => Len(normalize_path(current_path_, path)) <= MaxCwdLen
    /\ current_path_' = IF info = "directory"
                        THEN normalize_path(current_path_, path) ELSE current_path_
    /\ npLast' = [op |-> "change_directory", path |-> path,
                  result |-> normalize_path(current_path_, path)]
    /\ UNCHANGED pathOthers

NextPath ==
    \/ \E path \in PathInputs : NormalizePath(path)
    \/ \E path \in PathInputs, info \in Lookups : ChangeDirectory(path, info)

SpecPath == InitPath /\ [][NextPath]_vars

\* the segments of a string that starts with '/': what lies between its '/'
Segments(str) == GetLines(Tail(str))

\* C21: for every input path and every current directory, normalize_path
\* returns a string that starts with '/', has no empty, "." or ".." segment,
\* and is a fixed point of normalize_path; ".." at the root stays at the
\* root; and from /d1/d2 the inputs of S7 yield /d1/d2, /d1/d2, /d1, /,
\* /d1/d2 and /d1/d2.
C21_Normalize ==
    npLast.op \in {"normalize_path", "change_directory"} =>
        /\ npLast.result = normalize_path(current_path_, npLast.path)
           \/ npLast.op = "change_directory"
        /\ npLast.result # << >>
        /\ npLast.result[1] = "/"
        /\ npLast.result # <<"/">>
           => /\ Last(npLast.result) # "/"
              /\ \A i \in 1 .. Len(Segments(npLast.result)) :
                     Segments(npLast.result)[i] \notin {<< >>, <<".">>, <<".", ".">>}
        /\ normalize_path(current_path_, npLast.result) = npLast.result
        /\ (current_path_ = <<"/">> /\ npLast.op = "normalize_path"
            /\ npLast.path \in {<<".", ".">>, <<".", ".", "/">>, <<"/", ".", ".">>})
           => npLast.result = <<"/">>
        /\ (current_path_ = D1D2 /\ npLast.op = "normalize_path")
           => /\ npLast.path = <<".">> => npLast.result = D1D2
              /\ npLast.path = <<".", "/">> => npLast.result = D1D2
              /\ npLast.path = <<".", ".", "/">> => npLast.result = <<"/", "d", "1">>
              /\ npLast.path = <<".", ".", "/", ".", ".", "/">> => npLast.result = <<"/">>
              /\ npLast.path = <<".", ".", "/", "d", "2">> => npLast.result = D1D2
              /\ npLast.path = <<"/", "d", "1", "/", ".", "/", "d", "2", "/", ".", ".",
                                 "/", "d", "2">>
                 => npLast.result = D1D2

\* the current directory is /d1/d2 and "../d2" has just been normalized
C21_Witness ==
    /\ current_path_ = D1D2
    /\ npLast = [op |-> "normalize_path", path |-> <<".", ".", "/", "d", "2">>,
                 result |-> D1D2]


(***************************************************************************)
(* Specification SpecClients: two clients of one mounted SimpleFileSystem, *)
(* one calling read_file and one calling write_file and delete_file on the *)
(* same path.  A client takes one step per access to the state the two     *)
(* share: the open-file map, the inode record, the inode's SpinLock, one   *)
(* block of the extent.  The bitmap is the revision of                     *)
(* src/unnamed/part_012, with which the extent of the file lies behind the *)
(* inode records in use.                                                   *)
(***************************************************************************)
FilePath == <<"a">>
OldContent == <<"a">>
WriteContents == {<<"a">>, <<"b", "b">>}

\* after format and mount
JustMounted(impl) ==
    create_root_directory(
        [disk |-> [n \in Blocks |-> ZeroBlock],
         bm |-> LoadBitmap(impl, [n \in Blocks |-> ZeroBlock]), impl |-> impl,
         used |-> NoInodeUsed, cnt |-> 0, dc |-> << >>]).st
\* after create_file(FilePath, OldContent)
WithFile(impl) == fs_create_file(<< >>, JustMounted(impl), FilePath, OldContent).st

NoLocals == [id |-> 0, node |-> ZeroINode, i |-> 0, buf |-> << >>,
             content |-> << >>, ok |-> FALSE]
NoCall == [op |-> "none", ret |-> 0, content |-> << >>]

\* the state of the inode manager and the bitmap becomes st
StBecomes(st) ==
    /\ disk' = st.disk
    /\ total_blocks_' = st.bm.total
    /\ free_blocks_' = st.bm.free
    /\ bitmap_' = st.bm.bits
    /\ inode_used_' = st.used
    /\ inode_count_' = st.cnt
    /\ directory_cache_' = st.dc
StVars == <<disk, total_blocks_, free_blocks_, bitmap_, inode_used_, inode_count_,
            directory_cache_>>
\* what no client step changes
cliOthers == <<bmImpl, bmLast, stream_fail, cVars, pathVars, formatted, mounted_,
               net_opens, written, fsLast, calls, plain, allocation_mutex_, rw_lock_,
               mutexes, unitVars>>

InitClients ==
    /\ bmImpl = "p012"
    /\ total_blocks_ = WithFile(bmImpl).bm.total
    /\ free_blocks_ = WithFile(bmImpl).bm.free
    /\ bitmap_ = WithFile(bmImpl).bm.bits
    /\ bmLast = [op |-> "none", ok |-> TRUE, val |-> 0]
    /\ disk = WithFile(bmImpl).disk
    /\ stream_fail = FALSE
    /\ CacheUnused
    /\ formatted = TRUE
    /\ mounted_ = TRUE
    /\ inode_used_ = WithFile(bmImpl).used
    /\ inode_count_ = WithFile(bmImpl).cnt
    /\ directory_cache_ = WithFile(bmImpl).dc
    /\ open_files_ = << >>
    /\ net_opens = << >>
    /\ written = << >>
    /\ fsLast = [op |-> "none", ret |-> 0]
    /\ calls = 0
    /\ plain = TRUE
    /\ PathUnused
    /\ UnitsUnused
    /\ pc = [c \in {"r", "m"} |-> "idle"]
    /\ loc = [c \in {"r", "m"} |-> NoLocals]
    /\ inode_locks_ = {}
    /\ allocation_mutex_ = "free"
    /\ rw_lock_ = RwFree
    /\ mutexes = << >>
    /\ cliLast = [c \in {"r", "m"} |-> NoCall]

\* the string read_file_data builds from the blocks it has copied
BufferString(node, buf) ==
    [n \in 1 .. node.size |->
        IF (n - 1) \div BS < Len(buf) THEN UnitAt(buf[((n - 1) \div BS) + 1], (n - 1) % BS)
        ELSE "Z"]

\* ---- client r: SimpleFileSystem::read_file(FilePath) ----
\* open_file(normalized_path)
RdOpenFile ==
    /\ pc["r"] = "idle"
    /\ \E o \in {open_file(open_files_, St, FilePath)} :
           /\ open_files_' = o.of
           /\ directory_cache_' = o.st.dc
    /\ pc' = [pc EXCEPT !["r"] = "rd_resolve"]
    /\ loc' = [loc EXCEPT !["r"] = NoLocals]
    /\ UNCHANGED <<disk, total_blocks_, free_blocks_, bitmap_, inode_used_,
                   inode_count_, inode_locks_, cliLast, cliOthers>>

\* INodeManager::read_file: resolve_path, read_inode and the test of the type
RdResolve ==
    /\ pc["r"] = "rd_resolve"
    /\ \E rp \in {resolve_path(St, FilePath)} :
           /\ directory_cache_' = rp.st.dc
           /\ IF rp.id = 0 - 1 \/ ~IsA(rp.st, rp.id, FS_FILE)
              THEN /\ pc' = [pc EXCEPT !["r"] = "rd_close"]
                   /\ loc' = loc
              ELSE /\ pc' = [pc EXCEPT !["r"] = "rd_inode"]
                   /\ loc' = [loc EXCEPT !["r"].id = rp.id]
    /\ UNCHANGED <<disk, total_blocks_, free_blocks_, bitmap_, inode_used_,
                   inode_count_, open_files_, inode_locks_, cliLast, cliOthers>>

\* read_file_data: read_inode, before the lock is taken
RdReadInode ==
    /\ pc["r"] = "rd_inode"
    /\ \E r \in {read_inode(St, loc["r"].id)} :
           IF ~r.ok \/ r.node.type # FS_FILE
           THEN /\ pc' = [pc EXCEPT !["r"] = "rd_close"]
                /\ loc' = loc
           ELSE /\ pc' = [pc EXCEPT !["r"] = "rd_lock"]
                /\ loc' = [loc EXCEPT !["r"].node = r.node]
    /\ UNCHANGED <<StVars, open_files_, inode_locks_, cliLast, cliOthers>>

\* LockGuard<SpinLock> inode_guard(*inode_locks_[inode_id])
RdLock ==
    /\ pc["r"] = "rd_lock"
    /\ loc["r"].id \notin inode_locks_
    /\ inode_locks_' = inode_locks_ \cup {loc["r"].id}
    /\ pc' = [pc EXCEPT !["r"] = "rd_block"]
    /\ UNCHANGED <<StVars, open_files_, loc, cliLast, cliOthers>>

\* one turn of the loop over the blocks; after the last one the string is
\* built and the guard releases the lock
RdBlock ==
    /\ pc["r"] = "rd_block"
    /\ IF loc["r"].i < loc["r"].node.block_count
       THEN IF ~DiskOk(FALSE, (loc["r"].node.start_block + loc["r"].i) % U32)
            THEN /\ pc' = [pc EXCEPT !["r"] = "rd_close"]
                 /\ inode_locks_' = inode_locks_ \ {loc["r"].id}
                 /\ loc' = loc
            ELSE /\ loc' = [loc EXCEPT
                        !["r"].i = @ + 1,
                        !["r"].buf = Append(@, disk[loc["r"].node.start_block
                                                    + loc["r"].i])]
                 /\ UNCHANGED <<pc, inode_locks_>>
       ELSE /\ loc' = [loc EXCEPT
                   !["r"].content = BufferString(loc["r"].node, loc["r"].buf),
                   !["r"].ok = TRUE]
            /\ inode_locks_' = inode_locks_ \ {loc["r"].id}
            /\ pc' = [pc EXCEPT !["r"] = "rd_close"]
    /\ UNCHANGED <<StVars, open_files_, cliLast, cliOthers>>

\* close_file(normalized_path) and the return
RdClose ==
    /\ pc["r"] = "rd_close"
    /\ open_files_' = close_file(open_files_, FilePath).of
    /\ cliLast' = [cliLast EXCEPT !["r"] =
           [op |-> "read_file", ret |-> IF loc["r"].ok THEN 0 ELSE 0 - 2,
            content |-> loc["r"].content]]
    /\ pc' = [pc EXCEPT !["r"] = "idle"]
    /\ loc' = [loc EXCEPT !["r"] = NoLocals]
    /\ UNCHANGED <<StVars, inode_locks_, cliOthers>>

\* ---- client m: SimpleFileSystem::write_file(FilePath, content) ----
Returns(c, op, ret) ==
    /\ cliLast' = [cliLast EXCEPT ![c] = [op |-> op, ret |-> ret, content |-> << >>]]
    /\ pc' = [pc EXCEPT ![c] = "idle"]
    /\ loc' = [loc EXCEPT ![c] = NoLocals]

\* is_file_protected(normalized_path)
WrProtected(content) ==
    /\ pc["m"] = "idle"
    /\ IF is_file_protected(open_files_, FilePath)
       THEN Returns("m", "write_file", 0 - 2)
       ELSE /\ pc' = [pc EXCEPT !["m"] = "wr_info"]
            /\ loc' = [loc EXCEPT !["m"] = [NoLocals EXCEPT !.content = content]]
            /\ cliLast' = cliLast
    /\ UNCHANGED <<StVars, open_files_, inode_locks_, cliOthers>>

\* get_file_info; a file that does not exist is created
WrInfo ==
    /\ pc["m"] = "wr_info"
    /\ \E info \in {get_file_info(St, FilePath)} :
           IF info.inode_id = 0
           THEN \E c \in {fs_create_file(open_files_, info.st, FilePath,
                                         loc["m"].content)} :
                    /\ StBecomes(c.st)
                    /\ Returns("m", "write_file", c.ret)
           ELSE /\ StBecomes(info.st)
                /\ pc' = [pc EXCEPT !["m"] = "wr_resolve"]
                /\ UNCHANGED <<loc, cliLast>>
    /\ UNCHANGED <<open_files_, inode_locks_, cliOthers>>

\* INodeManager::write_file: resolve_path, read_inode and the test of the type
WrResolve ==
    /\ pc["m"] = "wr_resolve"
    /\ \E rp \in {resolve_path(St, FilePath)} :
           /\ directory_cache_' = rp.st.dc
           /\ IF rp.id = 0 - 1 \/ ~IsA(rp.st, rp.id, FS_FILE)
              THEN Returns("m", "write_file", 0 - 3)
              ELSE /\ pc' = [pc EXCEPT !["m"] = "wr_resize"]
                   /\ loc' = [loc EXCEPT !["m"].id = rp.id]
                   /\ cliLast' = cliLast
    /\ UNCHANGED <<disk, total_blocks_, free_blocks_, bitmap_, inode_used_,
                   inode_count_, open_files_, inode_locks_, cliOthers>>

\* resize_inode(inode_id, content.size()), all of it under the inode's lock
WrResize ==
    /\ pc["m"] = "wr_resize"
    /\ loc["m"].id \notin inode_locks_
    /\ \E rs \in {resize_inode(St, loc["m"].id, Len(loc["m"].content))} :
           /\ StBecomes(rs.st)
           /\ IF ~rs.ok THEN Returns("m", "write_file", 0 - 3)
              ELSE /\ pc' = [pc EXCEPT !["m"] = "wr_inode"]
                   /\ UNCHANGED <<loc, cliLast>>
    /\ UNCHANGED <<open_files_, inode_locks_, cliOthers>>

\* write_file_data: read_inode; a size that differs is resized and the record
\* read again
WrReadInode ==
    /\ pc["m"] = "wr_inode"
    /\ \E r \in {read_inode(St, loc["m"].id)} :
           IF ~r.ok \/ r.node.type # FS_FILE THEN Returns("m", "write_file", 0 - 3)
           ELSE IF r.node.size # Len(loc["m"].content)
           THEN /\ pc' = [pc EXCEPT !["m"] = "wr_resize"]
                /\ UNCHANGED <<loc, cliLast>>
           ELSE /\ pc' = [pc EXCEPT !["m"] = "wr_block"]
                /\ loc' = [loc EXCEPT !["m"].node = r.node]
                /\ cliLast' = cliLast
    /\ UNCHANGED <<StVars, open_files_, inode_locks_, cliOthers>>

\* one turn of the loop over the blocks, no lock held; after the last one
\* write_inode with the record read before
WrBlock ==
    /\ pc["m"] = "wr_block"
    /\ IF loc["m"].i < loc["m"].node.block_count
       THEN IF ~DiskOk(FALSE, (loc["m"].node.start_block + loc["m"].i) % U32)
            THEN /\ Returns("m", "write_file", 0 - 3)
                 /\ disk' = disk
            ELSE /\ disk' = [disk EXCEPT
                        ![loc["m"].node.start_block + loc["m"].i] =
                            ContentBlock(loc["m"].content, loc["m"].i)]
                 /\ loc' = [loc EXCEPT !["m"].i = @ + 1]
                 /\ UNCHANGED <<pc, cliLast>>
       ELSE \E w \in {write_inode(St, loc["m"].id, loc["m"].node)} :
                /\ disk' = w.st.disk
                /\ Returns("m", "write_file", IF w.ok THEN 0 ELSE 0 - 3)
    /\ UNCHANGED <<total_blocks_, free_blocks_, bitmap_, inode_used_, inode_count_,
                   directory_cache_, open_files_, inode_locks_, cliOthers>>

\* ---- client m: SimpleFileSystem::delete_file(FilePath) ----
DelProtected ==
    /\ pc["m"] = "idle"
    /\ IF is_file_protected(open_files_, FilePath)
       THEN Returns("m", "delete_file", 0 - 2)
       ELSE /\ pc' = [pc EXCEPT !["m"] = "del_info"]
            /\ UNCHANGED <<loc, cliLast>>
    /\ UNCHANGED <<StVars, open_files_, inode_locks_, cliOthers>>

DelInfo ==
    /\ pc["m"] = "del_info"
    /\ \E info \in {get_file_info(St, FilePath)} :
           /\ directory_cache_' = info.st.dc
           /\ IF info.inode_id = 0 \/ info.is_directory
              THEN Returns("m", "delete_file", 0 - 3)
              ELSE /\ pc' = [pc EXCEPT !["m"] = "del_inode"]
                   /\ UNCHANGED <<loc, cliLast>>
    /\ UNCHANGED <<disk, total_blocks_, free_blocks_, bitmap_, inode_used_,
                   inode_count_, open_files_, inode_locks_, cliOthers>>

\* INodeManager::delete_file
DelInode ==
    /\ pc["m"] = "del_inode"
    /\ \E d \in {delete_file(St, FilePath)} :
           /\ StBecomes(d.st)
           /\ Returns("m", "delete_file", IF d.ok THEN 0 ELSE 0 - 4)
    /\ UNCHANGED <<open_files_, inode_locks_, cliOthers>>

NextClients ==
    \/ RdOpenFile
    \/ RdResolve
    \/ RdReadInode
    \/ RdLock
    \/ RdBlock
    \/ RdClose
    \/ \E content \in WriteContents : WrProtected(content)
    \/ WrInfo
    \/ WrResolve
    \/ WrResize
    \/ WrReadInode
    \/ WrBlock
    \/ DelProtected
    \/ DelInfo
    \/ DelInode

SpecClients == InitClients /\ [][NextClients]_vars

\* C22: a read_file that returns 0 while the other client writes the same
\* file returns a content the file has held in full: the content before a
\* write or the content a write was called with, never a mixture of the two
\* and never a string whose length or bytes belong to neither.
C22_ReadsAreLinearizable ==
    (cliLast["r"].op = "read_file" /\ cliLast["r"].ret = 0)
    => cliLast["r"].content \in WriteContents

\* C25: the client that writes or deletes changes the inode, the extent or
\* the directory of the path only while the path's open count is zero.
C25_BusyCheckIsAtomic ==
    [][(WrResize \/ WrBlock \/ DelInode \/ (WrInfo /\ pc'["m"] = "idle"))
       => ~is_file_protected(open_files_, FilePath)]_vars


(***************************************************************************)
(* Specification SpecAlloc: two clients of one INodeManager.  Each creates *)
(* a file of its own name in the root (INodeManager::create_file with      *)
(* empty content) and deletes it again (delete_inode).  A client takes one *)
(* step per access to inode_used_ and inode_count_; the statement          *)
(* inode_used_[id] = true on the std::vector<bool> is a load of the word   *)
(* and a store of it, and inode_count_++ a load and a store.  What lies    *)
(* between (the extent, the record, the entry of the parent) is one step.  *)
(***************************************************************************)
AllocClients == {"c1", "c2"}
NameOf(c) == IF c = "c1" THEN "a" ELSE "b"
AllocLocals == [id |-> 0, word |-> << >>, tmp |-> 0, held |-> 0]
\* what no step of these clients changes
allocOthers == <<bmImpl, bmLast, stream_fail, cVars, pathVars, formatted, mounted_,
                 open_files_, net_opens, written, fsLast, calls, plain, inode_locks_,
                 rw_lock_, mutexes, unitVars>>

InitAlloc ==
    /\ bmImpl = "p012"
    /\ total_blocks_ = JustMounted(bmImpl).bm.total
    /\ free_blocks_ = JustMounted(bmImpl).bm.free
    /\ bitmap_ = JustMounted(bmImpl).bm.bits
    /\ bmLast = [op |-> "none", ok |-> TRUE, val |-> 0]
    /\ disk = JustMounted(bmImpl).disk
    /\ stream_fail = FALSE
    /\ CacheUnused
    /\ formatted = TRUE
    /\ mounted_ = TRUE
    /\ inode_used_ = JustMounted(bmImpl).used
    /\ inode_count_ = JustMounted(bmImpl).cnt
    /\ directory_cache_ = JustMounted(bmImpl).dc
    /\ open_files_ = << >>
    /\ net_opens = << >>
    /\ written = << >>
    /\ fsLast = [op |-> "none", ret |-> 0]
    /\ calls = 0
    /\ plain = TRUE
    /\ PathUnused
    /\ UnitsUnused
    /\ pc = [c \in AllocClients |-> "idle"]
    /\ loc = [c \in AllocClients |-> AllocLocals]
    /\ inode_locks_ = {}
    /\ allocation_mutex_ = "free"
    /\ rw_lock_ = RwFree
    /\ mutexes = << >>
    /\ cliLast = [c \in AllocClients |-> [op |-> "none", ret |-> 0]]

Done(c, op, ret, held) ==
    /\ cliLast' = [cliLast EXCEPT ![c] = [op |-> op, ret |-> ret]]
    /\ pc' = [pc EXCEPT ![c] = "idle"]
    /\ loc' = [loc EXCEPT ![c] = [AllocLocals EXCEPT !.held = held]]

\* INodeManager::create_file: the name must not exist in the root
CfFind(c) ==
    /\ pc[c] = "idle"
    /\ loc[c].held = 0
    /\ \E f \in {find_inode(St, ROOT_INODE_ID, NameOf(c))} :
           /\ directory_cache_' = f.st.dc
           /\ IF f.id # 0 - 1 THEN Done(c, "create_file", 0, 0)
              ELSE /\ pc' = [pc EXCEPT ![c] = "ci_check"]
                   /\ UNCHANGED <<loc, cliLast>>
    /\ UNCHANGED <<disk, total_blocks_, free_blocks_, bitmap_, inode_used_,
                   inode_count_, allocation_mutex_, allocOthers>>

\* create_inode: if (inode_count_ >= max_inodes_) return -1
CiCheck(c) ==
    /\ pc[c] = "ci_check"
    /\ IF inode_count_ >= MaxInodes THEN Done(c, "create_file", 0, 0)
       ELSE /\ pc' = [pc EXCEPT ![c] = "ci_scan"]
            /\ UNCHANGED <<loc, cliLast>>
    /\ UNCHANGED <<StVars, allocation_mutex_, allocOthers>>

\* the scan for a free slot and its marking, under allocation_mutex_
CiScan(c) ==
    /\ pc[c] = "ci_scan"
    /\ allocation_mutex_ = "free"
    /\ IF FreeIds(St) = {}
       THEN /\ Done(c, "create_file", 0, 0)
            /\ inode_used_' = inode_used_
       ELSE /\ inode_used_' = [inode_used_ EXCEPT ![Lowest(FreeIds(St))] = TRUE]
            /\ loc' = [loc EXCEPT ![c].id = Lowest(FreeIds(St)),
                                  ![c].held = Lowest(FreeIds(St))]
            /\ pc' = [pc EXCEPT ![c] = "ci_body"]
            /\ cliLast' = cliLast
    /\ UNCHANGED <<disk, total_blocks_, free_blocks_, bitmap_, inode_count_,
                   directory_cache_, allocation_mutex_, allocOthers>>

\* the extent, the record and the entry in the root
CiBody(c) ==
    /\ pc[c] = "ci_body"
    /\ \E r \in {create_inode_alloc(St, loc[c].id, ROOT_INODE_ID, FS_FILE,
                                    NameOf(c), 1)} :
           IF r.ret = loc[c].id
           THEN /\ StBecomes([r.st EXCEPT !.used = inode_used_, !.cnt = inode_count_])
                /\ pc' = [pc EXCEPT ![c] = "ci_mark_load"]
                /\ UNCHANGED <<loc, cliLast>>
           ELSE /\ StBecomes(r.st)
                /\ Done(c, "create_file", 0, 0)
    /\ UNCHANGED <<allocation_mutex_, allocOthers>>

\* inode_used_[inode_id] = true: the word is loaded
CiMarkLoad(c) ==
    /\ pc[c] = "ci_mark_load"
    /\ loc' = [loc EXCEPT ![c].word = inode_used_]
    /\ pc' = [pc EXCEPT ![c] = "ci_mark_store"]
    /\ UNCHANGED <<StVars, cliLast, allocation_mutex_, allocOthers>>

\* the word is stored with the bit set
CiMarkStore(c) ==
    /\ pc[c] = "ci_mark_store"
    /\ inode_used_' = [loc[c].word EXCEPT ![loc[c].id] = TRUE]
    /\ pc' = [pc EXCEPT ![c] = "ci_count_load"]
    /\ UNCHANGED <<disk, total_blocks_, free_blocks_, bitmap_, inode_count_,
                   directory_cache_, loc, cliLast, allocation_mutex_, allocOthers>>

\* inode_count_++: the load
CiCountLoad(c) ==
    /\ pc[c] = "ci_count_load"
    /\ loc' = [loc EXCEPT ![c].tmp = inode_count_]
    /\ pc' = [pc EXCEPT ![c] = "ci_count_store"]
    /\ UNCHANGED <<StVars, cliLast, allocation_mutex_, allocOthers>>

\* the store, and the return of the new id
CiCountStore(c) ==
    /\ pc[c] = "ci_count_store"
    /\ inode_count_' = (loc[c].tmp + 1) % U32
    /\ Done(c, "create_file", 1, loc[c].id)
    /\ UNCHANGED <<disk, total_blocks_, free_blocks_, bitmap_, inode_used_,
                   directory_cache_, allocation_mutex_, allocOthers>>

\* delete_inode of the client's file, up to the allocation lock: the entry in
\* the root, the extent, the cached directory
DiBody(c) ==
    /\ pc[c] = "idle"
    /\ loc[c].held # 0
    /\ \E d \in {delete_inode(St, loc[c].held)} :
           IF ~d.ok
           THEN /\ Done(c, "delete_inode", 0, loc[c].held)
                /\ UNCHANGED StVars
           ELSE /\ StBecomes([d.st EXCEPT !.used = inode_used_, !.cnt = inode_count_])
                /\ pc' = [pc EXCEPT ![c] = "di_lock"]
                /\ UNCHANGED <<loc, cliLast>>
    /\ UNCHANGED <<allocation_mutex_, allocOthers>>

\* under allocation_mutex_: inode_used_[inode_id] = false, and the load of
\* inode_count_--
DiLock(c) ==
    /\ pc[c] = "di_lock"
    /\ allocation_mutex_ = "free"
    /\ allocation_mutex_' = c
    /\ inode_used_' = [inode_used_ EXCEPT ![loc[c].held] = FALSE]
    /\ loc' = [loc EXCEPT ![c].tmp = inode_count_]
    /\ pc' = [pc EXCEPT ![c] = "di_store"]
    /\ UNCHANGED <<disk, total_blocks_, free_blocks_, bitmap_, inode_count_,
                   directory_cache_, cliLast, allocOthers>>

\* the store of inode_count_--, and the lock is released
DiStore(c) ==
    /\ pc[c] = "di_store"
    /\ inode_count_' = (loc[c].tmp + U32 - 1) % U32
    /\ allocation_mutex_' = "free"
    /\ Done(c, "delete_inode", 1, 0)
    /\ UNCHANGED <<disk, total_blocks_, free_blocks_, bitmap_, inode_used_,
                   directory_cache_, allocOthers>>

NextAlloc ==
    \/ \E c \in AllocClients : CfFind(c)
    \/ \E c \in AllocClients : CiCheck(c)
    \/ \E c \in AllocClients : CiScan(c)
    \/ \E c \in AllocClients : CiBody(c)
    \/ \E c \in AllocClients : CiMarkLoad(c)
    \/ \E c \in AllocClients : CiMarkStore(c)
    \/ \E c \in AllocClients : CiCountLoad(c)
    \/ \E c \in AllocClients : CiCountStore(c)
    \/ \E c \in AllocClients : DiBody(c)
    \/ \E c \in AllocClients : DiLock(c)
    \/ \E c \in AllocClients : DiStore(c)

SpecAlloc == InitAlloc /\ [][NextAlloc]_vars

\* the slots marked used
UsedSlots == {i \in 0 .. (MaxInodes - 1) : inode_used_[i]}

\* C23: the slot a create takes is the lowest free one and neither slot 0
\* nor the root's slot 1; two clients never hold the same slot, a slot held
\* is marked used, and when no call is running inode_count_ is the number
\* of slots marked used.
C23_AllocationIsAtomic ==
    /\ \A c \in AllocClients :
           loc[c].held # 0
           => /\ loc[c].held \notin {0, ROOT_INODE_ID}
              /\ \A o \in AllocClients \ {c} : loc[o].held # loc[c].held
              /\ pc[c] = "idle" => inode_used_[loc[c].held]
    /\ (\A c \in AllocClients : pc[c] = "idle")
       => inode_count_ = Cardinality(UsedSlots)


(***************************************************************************)
(* Specification SpecCacheClients: two threads on one CacheManager, each   *)
(* calling read_block, one of them also write_block.  core (src/src/core/cache.cpp)      *)
(* takes rw_lock_; part_005 has every guard commented out.  A thread takes *)
(* one step per lock operation and per access to the frames, the map and   *)
(* the queue; get_free_page and write_block as a whole are one step each.  *)
(* Device block n holds DataBlock(10 + n) and a thread writes              *)
(* DataBlock(20 + n) to block n, so the block a value belongs to is known. *)
(***************************************************************************)
CacheClients == {"t1", "t2"}
ClientBlocks == CacheArgs \cap Blocks
\* the blocks the writing thread writes
WriterBlocks == {0}
CacheLocals == [b |-> 0, idx |-> NoPage]
NoCacheCall == [op |-> "none", ret |-> "ok", block |-> 0, data |-> ZeroBlock]
ValuesOf(b) == {DataBlock(10 + b), DataBlock(20 + b)}
ccOthers == <<bmVars, stream_fail, cImpl, inserted, cLast, fsVars, pathVars,
              inode_locks_, allocation_mutex_, mutexes, unitVars>>
Locked == cImpl = "core"
\* no call begins while the queue is longer than this
MaxFifo == 2

InitCacheClients ==
    /\ cImpl \in {"core", "p005"}
    /\ pages_ = [i \in Frames |-> [block_no |-> UINT32_MAX, dirty |-> FALSE,
                                   data |-> ZeroBlock]]
    /\ block_to_page_ = [b \in CacheArgs |-> NoPage]
    /\ fifo_queue_ = <<>>
    /\ inserted = <<>>
    /\ cLast = [op |-> "ctor", res |-> "ok"]
    /\ disk = [n \in Blocks |-> DataBlock(10 + n)]
    /\ stream_fail = FALSE
    /\ BitmapUnused
    /\ FsUnused
    /\ PathUnused
    /\ UnitsUnused
    /\ pc = [c \in CacheClients |-> "idle"]
    /\ loc = [c \in CacheClients |-> CacheLocals]
    /\ inode_locks_ = {}
    /\ allocation_mutex_ = "free"
    /\ rw_lock_ = RwFree
    /\ mutexes = << >>
    /\ cliLast = [c \in CacheClients |-> NoCacheCall]

CacheBecomes(c) ==
    /\ pages_' = c.pages
    /\ block_to_page_' = c.map
    /\ fifo_queue_' = c.fifo
    /\ disk' = c.disk

cacheState == <<pages_, block_to_page_, fifo_queue_, disk>>

\* cliLast keeps the call that returned last
CacheReturns(c, op, ret, data) ==
    /\ cliLast' = [o \in CacheClients |->
                      IF o = c THEN [op |-> op, ret |-> ret, block |-> loc[c].b,
                                     data |-> data]
                      ELSE NoCacheCall]
    /\ pc' = [pc EXCEPT ![c] = "idle"]
    /\ loc' = [loc EXCEPT ![c] = CacheLocals]

\* ~ReadGuard at the return of a call that has already run lock.~ReadGuard():
\* unlock_shared on a lock this thread does not hold is undefined; it leaves
\* the lock as it is or takes the share of a reader away; a write guard of
\* the returning thread is released before it
StrayUnlock(c) ==
    \E o \in {"none"} \cup rw_lock_.readers :
        rw_lock_' = [readers |-> rw_lock_.readers \ {o},
                     writer |-> IF rw_lock_.writer = c THEN "free"
                                ELSE rw_lock_.writer]

\* read_block is entered; core: ReadGuard lock(rw_lock_)
RbBegin(c, block_no) ==
    /\ pc[c] = "idle"
    /\ Len(fifo_queue_) <= MaxFifo
    /\ Locked => rw_lock_.writer = "free"
    /\ rw_lock_' = IF Locked
                   THEN [rw_lock_ EXCEPT !.readers = rw_lock_.readers \cup {c}]
                   ELSE rw_lock_
    /\ loc' = [loc EXCEPT ![c] = [b |-> block_no, idx |-> NoPage]]
    /\ pc' = [pc EXCEPT ![c] = "find"]
    /\ UNCHANGED <<cacheState, cliLast, ccOthers>>

\* the first find_page; on a miss core gives up its share by lock.~ReadGuard()
RbFind(c) ==
    /\ pc[c] = "find"
    /\ loc' = [loc EXCEPT ![c].idx = find_page(CM, loc[c].b)]
    /\ IF find_page(CM, loc[c].b) # NoPage
       THEN /\ pc' = [pc EXCEPT ![c] = "copy_hit"]
            /\ rw_lock_' = rw_lock_
       ELSE /\ pc' = [pc EXCEPT ![c] = IF Locked THEN "wlock" ELSE "recheck"]
            /\ rw_lock_' = [rw_lock_ EXCEPT !.readers = rw_lock_.readers \ {c}]
    /\ UNCHANGED <<cacheState, cliLast, ccOthers>>

\* memcpy on a hit and return; core still holds its share and gives it up
RbCopyHit(c) ==
    /\ pc[c] = "copy_hit"
    /\ CacheReturns(c, "read_block", "ok", pages_[loc[c].idx].data)
    /\ rw_lock_' = [rw_lock_ EXCEPT !.readers = rw_lock_.readers \ {c}]
    /\ UNCHANGED <<cacheState, ccOthers>>

\* core: WriteGuard write_lock(rw_lock_)
RbWriteLock(c) ==
    /\ pc[c] = "wlock"
    /\ rw_lock_ = RwFree
    /\ rw_lock_' = [rw_lock_ EXCEPT !.writer = c]
    /\ pc' = [pc EXCEPT ![c] = "recheck"]
    /\ UNCHANGED <<cacheState, loc, cliLast, ccOthers>>

\* the second find_page; core leaves the block of the write guard on a hit
RbRecheck(c) ==
    /\ pc[c] = "recheck"
    /\ loc' = [loc EXCEPT ![c].idx = find_page(CM, loc[c].b)]
    /\ IF find_page(CM, loc[c].b) # NoPage
       THEN /\ pc' = [pc EXCEPT ![c] = IF Locked THEN "copy" ELSE "copy_hit"]
            /\ rw_lock_' = [rw_lock_ EXCEPT !.writer = "free"]
       ELSE /\ pc' = [pc EXCEPT ![c] = "getfree"]
            /\ rw_lock_' = rw_lock_
    /\ UNCHANGED <<cacheState, cliLast, ccOthers>>

\* get_free_page
RbGetFree(c) ==
    /\ pc[c] = "getfree"
    /\ \E g \in {get_free_page(cImpl, CM)} :
           /\ CacheBecomes(g.c)
           /\ IF g.threw \/ g.idx = NoPage
              THEN /\ CacheReturns(c, "read_block",
                                   IF g.threw THEN "throw" ELSE "fail", ZeroBlock)
                   /\ IF Locked THEN StrayUnlock(c) ELSE rw_lock_' = rw_lock_
              ELSE /\ loc' = [loc EXCEPT ![c].idx = g.idx]
                   /\ pc' = [pc EXCEPT ![c] = "diskread"]
                   /\ UNCHANGED <<cliLast, rw_lock_>>
    /\ UNCHANGED ccOthers

\* disk_->read_block(block_no, pages_[page_index].data.data())
RbDiskRead(c) ==
    /\ pc[c] = "diskread"
    /\ IF DiskOk(stream_fail, loc[c].b)
       THEN /\ pages_' = [pages_ EXCEPT ![loc[c].idx].data = disk[loc[c].b]]
            /\ pc' = [pc EXCEPT ![c] = "install"]
            /\ UNCHANGED <<loc, cliLast, rw_lock_>>
       ELSE /\ pages_' = pages_
            /\ CacheReturns(c, "read_block", "fail", ZeroBlock)
            /\ IF Locked THEN StrayUnlock(c) ELSE rw_lock_' = rw_lock_
    /\ UNCHANGED <<block_to_page_, fifo_queue_, disk, ccOthers>>

\* the frame becomes the frame of the block; core leaves the block of the
\* write guard
RbInstall(c) ==
    /\ pc[c] = "install"
    /\ CacheBecomes([Install(CM, loc[c].idx, loc[c].b)
                       EXCEPT !.pages[loc[c].idx].dirty = FALSE])
    /\ rw_lock_' = [rw_lock_ EXCEPT !.writer = "free"]
    /\ pc' = [pc EXCEPT ![c] = "copy"]
    /\ UNCHANGED <<loc, cliLast, ccOthers>>

\* memcpy after a miss and return
RbCopy(c) ==
    /\ pc[c] = "copy"
    /\ CacheReturns(c, "read_block", "ok", pages_[loc[c].idx].data)
    /\ IF Locked THEN StrayUnlock(c) ELSE rw_lock_' = rw_lock_
    /\ UNCHANGED <<cacheState, ccOthers>>

\* write_block(block_no, DataBlock(20 + block_no)); core holds the write
\* guard throughout
CwWriteBlock(c, block_no) ==
    /\ pc[c] = "idle"
    /\ Len(fifo_queue_) <= MaxFifo
    /\ Locked => rw_lock_ = RwFree
    /\ \E r \in {write_block(cImpl, CM, block_no, DataBlock(20 + block_no))} :
           /\ CacheBecomes(r.c)
           /\ cliLast' = [o \in CacheClients |->
                             IF o = c THEN [op |-> "write_block", ret |-> r.res,
                                            block |-> block_no,
                                            data |-> DataBlock(20 + block_no)]
                             ELSE NoCacheCall]
    /\ UNCHANGED <<pc, loc, rw_lock_, ccOthers>>

NextCacheClients ==
    \/ \E c \in CacheClients, block_no \in ClientBlocks : RbBegin(c, block_no)
    \/ \E c \in CacheClients : RbFind(c)
    \/ \E c \in CacheClients : RbCopyHit(c)
    \/ \E c \in CacheClients : RbWriteLock(c)
    \/ \E c \in CacheClients : RbRecheck(c)
    \/ \E c \in CacheClients : RbGetFree(c)
    \/ \E c \in CacheClients : RbDiskRead(c)
    \/ \E c \in CacheClients : RbInstall(c)
    \/ \E c \in CacheClients : RbCopy(c)
    \/ \E block_no \in WriterBlocks : CwWriteBlock("t2", block_no)

SpecCacheClients == InitCacheClients /\ [][NextCacheClients]_vars

\* C24: no block is held by two frames, and the data a read_block returns
\* to its caller is data of the block the caller asked for, whatever the
\* other thread evicts meanwhile.
C24_ConcurrentCacheReads ==
    /\ \A i, j \in Frames :
           (i # j /\ pages_[i].block_no # UINT32_MAX)
           => pages_[i].block_no # pages_[j].block_no
    /\ \A c \in CacheClients :
           (cliLast[c].op = "read_block" /\ cliLast[c].ret = "ok")
           => cliLast[c].data \in ValuesOf(cliLast[c].block)


(***************************************************************************)
(* Specification SpecLocks: the lock operations of the file operations.    *)
(* A client runs create_file, write_file, read_file or delete_file on a    *)
(* file of the root directory; of each call only the acquisitions and      *)
(* releases of locks are kept, in the order the code on the successful     *)
(* path performs them.  All these locks are not recursive: std::mutex,     *)
(* SpinLock, and the write side of std::shared_mutex.  Locking one a       *)
(* second time from the thread that holds it is undefined: the thread      *)
(* blocks for ever (pthread mutex) or goes on (a build without threads).   *)
(* FreeBitmap takes its rw_lock_ in revision core only.                    *)
(***************************************************************************)
LockClients == {"c1", "c2"}
LockNames == {"allocation_mutex_", "inode_lock", "cache_mutex_", "dir_mutex",
              "bitmap_rw"}
LockOps == {"create_file", "write_file", "read_file", "delete_file"}
Acq(l) == <<[k |-> "acq", l |-> l]>>
Rel(l) == <<[k |-> "rel", l |-> l]>>

\* Directory::find_entry, remove_entry, serialize: lock_guard lock(mutex_)
DirCall == Acq("dir_mutex") \o Rel("dir_mutex")
\* Directory::add_entry holds mutex_ and calls find_entry
add_entry_locks == Acq("dir_mutex") \o DirCall \o Rel("dir_mutex")
\* FreeBitmap::free_consecutive_blocks, is_block_allocated, mark_block_used
BitmapCall(impl) ==
    IF impl = "core" THEN Acq("bitmap_rw") \o Rel("bitmap_rw") ELSE <<>>
\* FreeBitmap::allocate_consecutive_blocks holds rw_lock_ and calls
\* find_consecutive_free_blocks
allocate_locks(impl) ==
    IF impl = "core"
    THEN Acq("bitmap_rw") \o BitmapCall(impl) \o Rel("bitmap_rw") ELSE <<>>
AllocGuard == Acq("allocation_mutex_") \o Rel("allocation_mutex_")

\* find_inode, create_inode (scan, extent), add_directory_entry
create_file_locks(impl) ==
    DirCall \o AllocGuard \o allocate_locks(impl) \o add_entry_locks \o DirCall
\* resolve_path, resize_inode under the inode's SpinLock
write_file_locks(impl) ==
    DirCall \o Acq("inode_lock") \o BitmapCall(impl) \o allocate_locks(impl)
            \o BitmapCall(impl) \o Rel("inode_lock")
\* resolve_path, read_file_data under the inode's SpinLock
read_file_locks == DirCall \o Acq("inode_lock") \o Rel("inode_lock")
\* resolve_path, delete_inode: remove_directory_entry, the extent,
\* remove_from_cache, the slot
delete_file_locks(impl) ==
    DirCall \o DirCall \o DirCall \o BitmapCall(impl)
            \o Acq("cache_mutex_") \o Rel("cache_mutex_") \o AllocGuard

ScriptOf(impl, op) ==
    IF op = "create_file" THEN create_file_locks(impl)
    ELSE IF op = "write_file" THEN write_file_locks(impl)
    ELSE IF op = "read_file" THEN read_file_locks
    ELSE delete_file_locks(impl)

lockOthers == <<total_blocks_, free_blocks_, bitmap_, bmLast, devVars, cVars,
                fsVars, pathVars, inode_locks_, allocation_mutex_, rw_lock_,
                cliLast, unitVars>>

InitLocks ==
    /\ bmImpl \in {"core", "p012"}
    /\ total_blocks_ = 0
    /\ free_blocks_ = 0
    /\ bitmap_ = <<>>
    /\ bmLast = [op |-> "none", ok |-> TRUE, val |-> 0]
    /\ disk = <<>>
    /\ stream_fail = FALSE
    /\ CacheUnused
    /\ FsUnused
    /\ PathUnused
    /\ UnitsUnused
    /\ pc = [c \in LockClients |-> "idle"]
    /\ loc = [c \in LockClients |-> [script |-> <<>>, stuck |-> FALSE]]
    /\ inode_locks_ = {}
    /\ allocation_mutex_ = "free"
    /\ rw_lock_ = RwFree
    /\ mutexes = [l \in LockNames |-> "free"]
    /\ cliLast = << >>

Advance(c) == loc' = [loc EXCEPT ![c].script = Tail(loc[c].script)]

\* the lock operation the client is at
Wants(c, k) ==
    /\ pc[c] # "idle"
    /\ ~loc[c].stuck
    /\ loc[c].script # <<>>
    /\ Head(loc[c].script).k = k

LkCall(c, op) ==
    /\ pc[c] = "idle"
    /\ pc' = [pc EXCEPT ![c] = op]
    /\ loc' = [loc EXCEPT ![c].script = ScriptOf(bmImpl, op)]
    /\ UNCHANGED <<bmImpl, mutexes, lockOthers>>

LkAcquire(c) ==
    /\ Wants(c, "acq")
    /\ mutexes[Head(loc[c].script).l] = "free"
    /\ mutexes' = [mutexes EXCEPT ![Head(loc[c].script).l] = c]
    /\ Advance(c)
    /\ UNCHANGED <<bmImpl, pc, lockOthers>>

\* the thread locks again what it holds and goes on
LkRelockProceeds(c) ==
    /\ Wants(c, "acq")
    /\ mutexes[Head(loc[c].script).l] = c
    /\ Advance(c)
    /\ UNCHANGED <<bmImpl, pc, mutexes, lockOthers>>

\* the thread locks again what it holds and waits for itself
LkRelockBlocks(c) ==
    /\ Wants(c, "acq")
    /\ mutexes[Head(loc[c].script).l] = c
    /\ loc' = [loc EXCEPT ![c].stuck = TRUE]
    /\ UNCHANGED <<bmImpl, pc, mutexes, lockOthers>>

LkRelease(c) ==
    /\ Wants(c, "rel")
    /\ mutexes' = [mutexes EXCEPT ![Head(loc[c].script).l] = "free"]
    /\ Advance(c)
    /\ UNCHANGED <<bmImpl, pc, lockOthers>>

LkReturn(c) ==
    /\ pc[c] # "idle"
    /\ loc[c].script = <<>>
    /\ pc' = [pc EXCEPT ![c] = "idle"]
    /\ UNCHANGED <<bmImpl, loc, mutexes, lockOthers>>

NextLocks ==
    \/ \E c \in LockClients, op \in LockOps : LkCall(c, op)
    \/ \E c \in LockClients : LkAcquire(c)
    \/ \E c \in LockClients : LkRelockProceeds(c)
    \/ \E c \in LockClients : LkRelockBlocks(c)
    \/ \E c \in LockClients : LkRelease(c)
    \/ \E c \in LockClients : LkReturn(c)

SpecLocks == InitLocks /\ [][NextLocks]_vars

\* the place of a lock in the order: allocation lock, per-inode lock,
\* directory cache lock, bitmap lock
Rank(l) ==
    IF l = "allocation_mutex_" THEN 2
    ELSE IF l = "inode_lock" THEN 3
    ELSE IF l = "cache_mutex_" THEN 4
    ELSE IF l = "bitmap_rw" THEN 5
    ELSE 0

\* the client waits for a lock that it cannot get
Blocked(c) ==
    /\ pc[c] # "idle"
    /\ loc[c].script # <<>>
    /\ Head(loc[c].script).k = "acq"
    /\ \/ loc[c].stuck
       \/ mutexes[Head(loc[c].script).l] \notin {"free", c}

\* C26: a client never requests a lock that comes before one it holds in
\* the order of the locks, and there is no state in which every client is
\* blocked on a lock.
C26_NoDeadlock ==
    /\ \A c \in LockClients :
           (pc[c] # "idle" /\ loc[c].script # <<>> /\ Head(loc[c].script).k = "acq")
           => \A h \in LockNames :
                  (mutexes[h] = c /\ Rank(h) # 0 /\ Rank(Head(loc[c].script).l) # 0)
                  => ~(Rank(Head(loc[c].script).l) < Rank(h))
    /\ ~(\A c \in LockClients : Blocked(c))


(***************************************************************************)
(* SimpleFileSystem::cache_.  mount makes the CacheManager over the device *)
(* and hands it to no component: FreeBitmap::load and save are given the   *)
(* VirtualDisk, and so is the INodeManager.  Nothing calls its read_block  *)
(* or write_block, so while the facade is mounted its frames are empty;    *)
(* unmount flushes it and destroys it.                                     *)
(***************************************************************************)
cache_ ==
    IF mounted_
    THEN [pages |-> [i \in Frames |-> [block_no |-> UINT32_MAX, dirty |-> FALSE,
                                       data |-> ZeroBlock]],
          map |-> [b \in Blocks |-> NoPage],
          fifo |-> <<>>]
    ELSE [pages |-> <<>>, map |-> <<>>, fifo |-> <<>>]

\* the device blocks a step changes
Changed == {b \in Blocks : disk'[b] # disk[b]}

\* C27: from the return of mount to unmount every block that the inode
\* manager or the bitmap writes goes through the cache: a device block
\* changes only to the data of a frame of the cache that holds the block.
C27_ThroughTheCache ==
    [][(mounted_ /\ mounted_')
       => \A b \in Changed :
              \E i \in Frames : /\ cache_.pages[i].block_no = b
                                /\ cache_.pages[i].data = disk'[b]]_vars


(***************************************************************************)
(* Specification SpecDirPage: one Directory and its page on the device, in *)
(* bytes.  A DirectoryEntry is a uint32_t, char[64] and a uint8_t: 72      *)
(* bytes with the padding of the struct.  Names are taken by their kind.   *)
(***************************************************************************)
ENTRY_SIZE == 72
COUNT_SIZE == 4
BLOCK_SIZE == 4096
NameKinds == {"fresh", "duplicate", "empty", "long"}
unitOthers == <<bmVars, devVars, cVars, fsVars, pathVars, cliVars, tree, sched>>

\* Directory::serialize: the count and the entries
serialize_size(count) == COUNT_SIZE + count * ENTRY_SIZE

\* Directory::add_entry: the length of the name, the name among the
\* entries, the number of entries
add_entry_count(count, kind) ==
    IF kind \in {"empty", "long"} THEN FALSE
    ELSE IF kind = "duplicate" THEN FALSE
    ELSE count < MAX_ENTRIES

\* save_directory_content: a page longer than the block is not written
save_page(count) == ~(serialize_size(count) > BLOCK_SIZE)

InitDirPage ==
    /\ BitmapUnused
    /\ disk = <<>>
    /\ stream_fail = FALSE
    /\ CacheUnused
    /\ FsUnused
    /\ PathUnused
    /\ ClientsUnused
    /\ vdisk = << >>
    /\ tree = << >>
    /\ sched = << >>
    /\ dirpage = [count |-> 2,
                  last |-> [op |-> "ctor", kind |-> "fresh", before |-> 0,
                            added |-> TRUE, saved |-> TRUE]]

\* add_directory_entry: add_entry, then save_directory_content
AddDirectoryEntry(kind) ==
    /\ kind = "duplicate" => dirpage.count > 0
    /\ dirpage' =
           IF add_entry_count(dirpage.count, kind)
           THEN [count |-> dirpage.count + 1,
                 last |-> [op |-> "add", kind |-> kind, before |-> dirpage.count,
                           added |-> TRUE,
                           saved |-> save_page(dirpage.count + 1)]]
           ELSE [dirpage EXCEPT !.last = [op |-> "add", kind |-> kind,
                                          before |-> dirpage.count,
                                          added |-> FALSE, saved |-> FALSE]]
    /\ UNCHANGED <<vdisk, unitOthers>>

\* remove_directory_entry: remove_entry of a name that is there, then save
RemoveDirectoryEntry ==
    /\ dirpage.count > 2
    /\ dirpage' = [count |-> dirpage.count - 1,
                   last |-> [op |-> "remove", kind |-> "duplicate",
                             before |-> dirpage.count, added |-> FALSE,
                             saved |-> save_page(dirpage.count - 1)]]
    /\ UNCHANGED <<vdisk, unitOthers>>

NextDirPage ==
    \/ \E kind \in NameKinds : AddDirectoryEntry(kind)
    \/ RemoveDirectoryEntry

SpecDirPage == InitDirPage /\ [][NextDirPage]_vars

\* C28: an add is rejected only for a duplicate, empty or over-long name or
\* when the directory holds MAX_ENTRIES entries, and adding a new name to a
\* directory of fewer than MAX_ENTRIES entries succeeds together with the
\* save of its page.
C28_AddAndSaveSucceeds ==
    dirpage.last.op = "add" =>
        /\ ~dirpage.last.added
           => \/ dirpage.last.kind \in {"duplicate", "empty", "long"}
              \/ dirpage.last.before >= MAX_ENTRIES
        /\ (dirpage.last.kind = "fresh" /\ dirpage.last.before < MAX_ENTRIES)
           => (dirpage.last.added /\ dirpage.last.saved)

(***************************************************************************)
(* Specification SpecDisk: one backing file and VirtualDisk objects on it, *)
(* sizes in bytes.                                                         *)
(***************************************************************************)
DISK_SIZE == 256
MiB == 1048576
MaxSizeMb == 8
SizesMb == 1 .. MaxSizeMb

\* VirtualDisk::VirtualDisk(filename, size_mb, block_size)
VirtualDisk(size_mb) ==
    [disk_size_ |-> size_mb * MiB,
     total_blocks_ |-> (size_mb * MiB) \div BLOCK_SIZE]

InitDisk ==
    /\ BitmapUnused
    /\ disk = <<>>
    /\ stream_fail = FALSE
    /\ CacheUnused
    /\ FsUnused
    /\ PathUnused
    /\ ClientsUnused
    /\ dirpage = << >>
    /\ tree = << >>
    /\ sched = << >>
    /\ vdisk = [obj |-> VirtualDisk(DISK_SIZE), file |-> 0, requested |-> 0,
                last |-> [op |-> "ctor", ok |-> TRUE]]

\* disk_ = std::make_unique<VirtualDisk>() in format and mount, or an object
\* made with a size
VdConstruct(size_mb) ==
    /\ vdisk' = [vdisk EXCEPT !.obj = VirtualDisk(size_mb),
                              !.last = [op |-> "ctor", ok |-> TRUE]]
    /\ UNCHANGED <<dirpage, unitOthers>>

\* VirtualDisk::create: the number of blocks is computed from disk_size_
\* before size_mb is stored there
VdCreate(size_mb) ==
    /\ vdisk' = [vdisk EXCEPT
           !.obj.disk_size_ = size_mb * MiB,
           !.file = (vdisk.obj.disk_size_ \div BLOCK_SIZE) * BLOCK_SIZE,
           !.requested = size_mb,
           !.last = [op |-> "create", ok |-> TRUE]]
    /\ UNCHANGED <<dirpage, unitOthers>>

\* VirtualDisk::open: the size of the file gives disk_size_ and total_blocks_
VdOpen ==
    /\ vdisk' = IF vdisk.file <= 0
                THEN [vdisk EXCEPT !.last = [op |-> "open", ok |-> FALSE]]
                ELSE [vdisk EXCEPT
                         !.obj = [disk_size_ |-> vdisk.file,
                                  total_blocks_ |-> vdisk.file \div BLOCK_SIZE],
                         !.last = [op |-> "open", ok |-> TRUE]]
    /\ UNCHANGED <<dirpage, unitOthers>>

NextDisk ==
    \/ \E size_mb \in SizesMb \cup {DISK_SIZE} : VdConstruct(size_mb)
    \/ \E size_mb \in SizesMb : VdCreate(size_mb)
    \/ VdOpen

SpecDisk == InitDisk /\ [][NextDisk]_vars

\* C29: after create(path, size) the backing file has the requested size,
\* and an open that follows reports the requested size divided by the block
\* size as its number of blocks, whatever size the object had before.
C29_CreateGivesRequestedSize ==
    /\ (vdisk.last.op = "create" /\ vdisk.last.ok)
       => vdisk.file = vdisk.requested * MiB
    /\ (vdisk.last.op = "open" /\ vdisk.last.ok)
       => vdisk.obj.total_blocks_ = (vdisk.requested * MiB) \div BLOCK_SIZE


(***************************************************************************)
(* The frames of the cache that hold a block                               *)
(***************************************************************************)
NonEmpty == {i \in Frames : pages_[i].block_no # UINT32_MAX}

\* C30: in every state of the cache, also after a device read or a
\* write-back that failed during a miss, every frame that holds a block is
\* the frame the map gives for that block and the map names no other frame,
\* the queue is as long as there are frames that hold a block, and a dirty
\* frame holds a block.
C30_CacheInvariants ==
    cImpl # "none" =>
        /\ \A i \in NonEmpty : /\ pages_[i].block_no \in CacheArgs
                               /\ block_to_page_[pages_[i].block_no] = i
        /\ \A b \in CacheArgs :
               block_to_page_[b] # NoPage => pages_[block_to_page_[b]].block_no = b
        /\ Len(fifo_queue_) = Cardinality(NonEmpty)
        /\ \A i \in Frames : pages_[i].dirty => i \in NonEmpty

(***************************************************************************)
(* Specification SpecUnitLocks: the lock operations of the calls made      *)
(* directly to FreeBitmap and to Directory.  As in SpecLocks a call is the *)
(* sequence of its acquisitions and releases on the path that reaches the  *)
(* nested call.  A ReadGuard asked for by the thread that holds the        *)
(* WriteGuard of the same std::shared_mutex is a second lock by the holder *)
(* just as a second WriteGuard is.  Directory has a std::mutex in          *)
(* src/src/core/directory.cpp and a ReadWriteLock in src/unnamed/part_013; *)
(* the sequence of operations on it is the same in both.                   *)
(***************************************************************************)
UnitOps == {"allocate_block", "allocate_consecutive_blocks", "initialize",
            "save", "add_entry", "remove_entry", "find_entry"}

\* FreeBitmap::allocate_block holds rw_lock_ and calls find_first_free_block
allocate_block_locks(impl) ==
    IF impl = "core"
    THEN Acq("bitmap_rw") \o BitmapCall(impl) \o Rel("bitmap_rw") ELSE <<>>
\* FreeBitmap::initialize(VirtualDisk*) holds rw_lock_ and calls save
initialize_locks(impl) ==
    IF impl = "core"
    THEN Acq("bitmap_rw") \o BitmapCall(impl) \o Rel("bitmap_rw") ELSE <<>>

UnitScriptOf(impl, op) ==
    IF op = "allocate_block" THEN allocate_block_locks(impl)
    ELSE IF op = "allocate_consecutive_blocks" THEN allocate_locks(impl)
    ELSE IF op = "initialize" THEN initialize_locks(impl)
    ELSE IF op = "save" THEN BitmapCall(impl)
    ELSE IF op = "add_entry" THEN add_entry_locks
    ELSE DirCall

LkUnitCall(c, op) ==
    /\ pc[c] = "idle"
    /\ pc' = [pc EXCEPT ![c] = op]
    /\ loc' = [loc EXCEPT ![c].script = UnitScriptOf(bmImpl, op)]
    /\ UNCHANGED <<bmImpl, mutexes, lockOthers>>

NextUnitLocks ==
    \/ \E c \in LockClients, op \in UnitOps : LkUnitCall(c, op)
    \/ \E c \in LockClients : LkAcquire(c)
    \/ \E c \in LockClients : LkRelockProceeds(c)
    \/ \E c \in LockClients : LkRelockBlocks(c)
    \/ \E c \in LockClients : LkRelease(c)
    \/ \E c \in LockClients : LkReturn(c)

SpecUnitLocks == InitLocks /\ [][NextUnitLocks]_vars

\* C31: a client that makes a call to FreeBitmap or Directory while every
\* other client is idle is never left waiting for a lock that its own call
\* holds, so the call returns.
C31_CallsReturn ==
    \A c \in LockClients :
        (\A o \in LockClients \ {c} : pc[o] = "idle") => ~loc[c].stuck

(***************************************************************************)
(* Specification SpecResize: two threads on one FreeBitmap, each with one  *)
(* file.  A thread creates its file (create_inode: one block from          *)
(* allocate_consecutive_blocks) and then calls resize_inode on it.  The    *)
(* two files are different inodes, so the SpinLock of an inode never       *)
(* orders the two threads; a call to FreeBitmap is one step (revision core *)
(* runs it under rw_lock_).  allocate_consecutive_blocks of core locks     *)
(* rw_lock_ twice: the caller goes on or waits for ever.  Blocks 0 and 1   *)
(* hold the bitmap and the inode table.                                    *)
(***************************************************************************)
ResizeClients == {"r1", "r2"}
MaxExtent == 3
NoNode == [start_block |-> 0, block_count |-> 0]
ResizeLocals == [node |-> NoNode, new_blocks |-> 0, i |-> 0, new_start |-> 0]
resizeOthers == <<bmImpl, total_blocks_, bmLast, devVars, cVars, fsVars, pathVars,
                  inode_locks_, allocation_mutex_, rw_lock_, mutexes, cliLast,
                  unitVars>>

InitResize ==
    /\ bmImpl \in {"core", "p012"}
    /\ total_blocks_ = TotalBlocks
    /\ free_blocks_ = TotalBlocks - 2
    /\ bitmap_ = [n \in Blocks |-> n < 2]
    /\ bmLast = [op |-> "none", ok |-> TRUE, val |-> 0]
    /\ disk = <<>>
    /\ stream_fail = FALSE
    /\ CacheUnused
    /\ FsUnused
    /\ PathUnused
    /\ UnitsUnused
    /\ pc = [c \in ResizeClients |-> "idle"]
    /\ loc = [c \in ResizeClients |-> ResizeLocals]
    /\ inode_locks_ = {}
    /\ allocation_mutex_ = "free"
    /\ rw_lock_ = RwFree
    /\ mutexes = << >>
    /\ cliLast = << >>

BitmapBecomes(b) ==
    /\ bitmap_' = b.bits
    /\ free_blocks_' = b.free

\* create_inode: the extent of the new file
RsCreate(c) ==
    /\ pc[c] = "idle"
    /\ loc[c].node = NoNode
    /\ \E r \in {allocate_consecutive_blocks(bmImpl, BM, 1)} :
           /\ BitmapBecomes(r.b)
           /\ loc' = [loc EXCEPT ![c].node =
                         IF r.ok THEN [start_block |-> r.val, block_count |-> 1]
                         ELSE NoNode]
    /\ UNCHANGED <<pc, resizeOthers>>

\* resize_inode up to the comparison of new_blocks with old_blocks
RsBegin(c, new_blocks) ==
    /\ pc[c] = "idle"
    /\ loc[c].node # NoNode
    /\ loc' = [loc EXCEPT ![c].new_blocks = new_blocks, ![c].i = 0]
    /\ pc' = [pc EXCEPT ![c] =
                 IF new_blocks = loc[c].node.block_count THEN "write"
                 ELSE IF new_blocks > loc[c].node.block_count THEN "check"
                 ELSE "relocate"]
    /\ UNCHANGED <<bitmap_, free_blocks_, resizeOthers>>

\* one turn of the loop over is_block_allocated
RsCheck(c) ==
    /\ pc[c] = "check"
    /\ IF loc[c].i = loc[c].new_blocks - loc[c].node.block_count
       THEN /\ pc' = [pc EXCEPT ![c] = "mark"]
            /\ loc' = [loc EXCEPT ![c].i = 0]
       ELSE IF IsAllocated(bmImpl, BM,
                   (loc[c].node.start_block + loc[c].node.block_count + loc[c].i) % U32)
       THEN /\ pc' = [pc EXCEPT ![c] = "relocate"]
            /\ loc' = loc
       ELSE /\ pc' = pc
            /\ loc' = [loc EXCEPT ![c].i = loc[c].i + 1]
    /\ UNCHANGED <<bitmap_, free_blocks_, resizeOthers>>

\* one turn of the loop over mark_block_used; after the last one the node
\* gets its new block_count
RsMark(c) ==
    /\ pc[c] = "mark"
    /\ IF loc[c].i = loc[c].new_blocks - loc[c].node.block_count
       THEN /\ pc' = [pc EXCEPT ![c] = "write"]
            /\ loc' = [loc EXCEPT ![c].node.block_count = loc[c].new_blocks]
            /\ UNCHANGED <<bitmap_, free_blocks_>>
       ELSE /\ BitmapBecomes(mark_block_used(bmImpl, BM,
                   (loc[c].node.start_block + loc[c].node.block_count + loc[c].i) % U32))
            /\ pc' = pc
            /\ loc' = [loc EXCEPT ![c].i = loc[c].i + 1]
    /\ UNCHANGED resizeOthers

\* allocate_consecutive_blocks(new_blocks, new_start)
RsAllocate(c) ==
    /\ pc[c] = "relocate"
    /\ \E r \in {allocate_consecutive_blocks(bmImpl, BM, loc[c].new_blocks)} :
           /\ BitmapBecomes(r.b)
           /\ loc' = [loc EXCEPT ![c].new_start = r.val]
           /\ pc' = [pc EXCEPT ![c] = IF r.ok THEN "move" ELSE "idle"]
    /\ UNCHANGED resizeOthers

\* core: the second WriteGuard on rw_lock_ inside allocate_consecutive_blocks
\* (called by create_inode and by resize_inode) never returns
RsAllocateBlocks(c) ==
    /\ pc[c] = "relocate" \/ (pc[c] = "idle" /\ loc[c].node = NoNode)
    /\ bmImpl = "core"
    /\ pc' = [pc EXCEPT ![c] = "stuck"]
    /\ UNCHANGED <<loc, bitmap_, free_blocks_, resizeOthers>>

\* copy_blocks, free_consecutive_blocks of the old extent, the node moves
RsMove(c) ==
    /\ pc[c] = "move"
    /\ BitmapBecomes(FreeConsecutive(bmImpl, BM, loc[c].node.start_block,
                                     loc[c].node.block_count))
    /\ loc' = [loc EXCEPT ![c].node = [start_block |-> loc[c].new_start,
                                       block_count |-> loc[c].new_blocks]]
    /\ pc' = [pc EXCEPT ![c] = "write"]
    /\ UNCHANGED resizeOthers

\* write_inode and return
RsWrite(c) ==
    /\ pc[c] = "write"
    /\ pc' = [pc EXCEPT ![c] = "idle"]
    /\ UNCHANGED <<loc, bitmap_, free_blocks_, resizeOthers>>

NextResize ==
    \/ \E c \in ResizeClients : RsCreate(c)
    \/ \E c \in ResizeClients, new_blocks \in 1 .. MaxExtent : RsBegin(c, new_blocks)
    \/ \E c \in ResizeClients : RsCheck(c)
    \/ \E c \in ResizeClients : RsMark(c)
    \/ \E c \in ResizeClients : RsAllocate(c)
    \/ \E c \in ResizeClients : RsAllocateBlocks(c)
    \/ \E c \in ResizeClients : RsMove(c)
    \/ \E c \in ResizeClients : RsWrite(c)

SpecResize == InitResize /\ [][NextResize]_vars

FileExtent(c) ==
    {b \in 0 .. UINT32_MAX : /\ loc[c].node.start_block <= b
                             /\ b < loc[c].node.start_block + loc[c].node.block_count}

\* C32: whatever the other thread does between the steps of an extension in
\* place, the extents of the two files share no block and every block of an
\* extent is a block of the device.
C32_ExtensionIsAtomic ==
    /\ \A c \in ResizeClients : \A b \in FileExtent(c) : b < total_blocks_
    /\ \A c, o \in ResizeClients : c # o => FileExtent(c) \cap FileExtent(o) = {}

\* the frames, the map and the queue are as they were
CacheAsBefore == UNCHANGED <<pages_, block_to_page_, fifo_queue_>>

\* C33: a read_block or write_block of a block number that is not a block
\* of the device, and a read_block that misses while the device cannot be
\* read, returns false and leaves every frame, the map and the queue as
\* they were before the call.
C33_FailedCallsLeaveCache ==
    [][\A block_no \in CacheArgs :
         /\ (CReadBlock(block_no) /\ block_no \notin Blocks)
                => (cLast'.res = "fail" /\ CacheAsBefore)
         /\ (CReadBlock(block_no) /\ find_page(CM, block_no) = NoPage
                                  /\ ~DiskOk(stream_fail, block_no))
                => (cLast'.res = "fail" /\ CacheAsBefore)
         /\ \A data \in WriteData :
                (CWriteBlock(block_no, data) /\ block_no \notin Blocks)
                => (cLast'.res = "fail" /\ CacheAsBefore)]_vars

\* a FreeBitmap as its constructor leaves it: every bit clear
FreshBitmapObject == [total |-> TotalBlocks, bits |-> [n \in Blocks |-> FALSE],
                      free |-> TotalBlocks]
\* load by a new object from the device as it is now
Reloaded ==
    IF bmImpl = "core" THEN load(FreshBitmapObject, total_blocks_, disk[0])
                       ELSE load_p012(FreshBitmapObject, total_blocks_, disk[0])

\* C34: after a save, a load from the device gives every block below
\* total_blocks_ the allocation bit it had when saved, and the same free
\* count, also when total_blocks_ is more than the bits of one device block.
C34_SaveLoadRoundTrip ==
    (bmLast.op = "save" /\ bmLast.ok) =>
        /\ \A n \in Blocks : n < total_blocks_ => Reloaded.bits[n] = bitmap_[n]
        /\ Reloaded.free = free_blocks_

\* the record of an inode on the device after the step
NodeAfter(i) == SlotRec(disk'[TableBlock(i)], i % INODES_PER_BLOCK)

\* C35: a write_file that returns 0 and changes the number of blocks of an
\* existing file, a shrink included, changes on the device only blocks of
\* the file's new extent and the table block of its record; afterwards the
\* file has the blocks its new size needs, they are marked in the bitmap,
\* and the blocks of the old extent outside the new one are free.
C35_ResizeKeepsToExtent ==
    [][\A p \in Paths : \A c \in Contents :
         \A id \in {resolve_path(St, p).id} :
           (/\ mounted_
            /\ id \in UsedIds
            /\ NodeOf(id).type = FS_FILE
            /\ NodeOf(id).block_count # calculate_blocks_needed(Len(c))
            /\ WriteFile(p, c)
            /\ fsLast'.ret = 0)
           => /\ Changed \subseteq (ExtentOf(NodeAfter(id)) \cup {TableBlock(id)})
              /\ NodeAfter(id).block_count = calculate_blocks_needed(Len(c))
              /\ \A b \in ExtentOf(NodeAfter(id)) : bitmap_'[b]
              /\ \A b \in ExtentOf(NodeOf(id)) \ ExtentOf(NodeAfter(id)) :
                     ~bitmap_'[b]]_vars

(***************************************************************************)
(* Specification SpecShell: the calls of SimpleFileSystem that work on     *)
(* path strings: mount, unmount, change_directory, create_directory,       *)
(* create_file, delete_directory, delete_file, open_file and close_file.   *)
(* Paths are strings of characters.  Of the inode manager only what        *)
(* get_file_info answers is kept: tree maps every path that resolves to    *)
(* "directory" or "file".  The names are d and dd, so that the string /d   *)
(* is a prefix of the string /dd/x while the file /dd/x is not in the      *)
(* directory /d.  mount builds the inode manager anew and creates the root *)
(* directory, as in SpecFs.                                                *)
(***************************************************************************)
MaxOpens == 2
ShRoot == <<"/">>
DirD == <<"/", "d">>
DirDD == <<"/", "d", "d">>
DirDD2 == <<"/", "d", "/", "d">>
FileDX == <<"/", "d", "/", "x">>
FileDDX == <<"/", "d", "d", "/", "x">>
ShDirs == {DirD, DirDD, DirDD2}
ShFiles == {FileDX, FileDDX}
CdInputs == ShDirs \cup ShFiles \cup {ShRoot, <<".", ".">>, <<"d">>, <<"d", "d">>, <<"x">>}
shellOthers == <<bmVars, devVars, cVars, formatted, inode_used_, inode_count_,
                 directory_cache_, net_opens, written, calls, plain, npLast,
                 cliVars, vdisk, dirpage, sched>>

LastSlash(str) == CHOOSE i \in 1 .. Len(str) :
                      str[i] = "/" /\ \A j \in (i + 1) .. Len(str) : str[j] # "/"
\* the path of the directory that holds the path, and the name in it
ParentOf(path) == IF LastSlash(path) = 1 THEN ShRoot
                  ELSE SubSeq(path, 1, LastSlash(path) - 1)
NameIn(path) == SubSeq(path, LastSlash(path) + 1, Len(path))
ChildOf(parent_path, name) ==
    IF parent_path = ShRoot THEN ShRoot \o name ELSE parent_path \o <<"/">> \o name
\* the path lies in the directory or in a directory below it
Under(path, dir) ==
    IF dir = ShRoot THEN path # ShRoot ELSE StartsWith(path, dir \o <<"/">>)

\* get_file_info(path): what the path resolves to
Resolves(t, path) == IF path \in DOMAIN t THEN t[path] ELSE "none"

\* INodeManager::create_directory and create_file: the parent is a
\* directory and the name is not in it
Created(t, path, kind) ==
    IF Resolves(t, ParentOf(path)) = "directory" /\ path \notin DOMAIN t
    THEN [ok |-> TRUE, t |-> (path :> kind) @@ t]
    ELSE [ok |-> FALSE, t |-> t]
\* INodeManager::delete_directory: the directory and all that is below it;
\* the root is refused
Removed(t, dir) ==
    IF dir = ShRoot THEN [ok |-> FALSE, t |-> t]
    ELSE [ok |-> TRUE,
          t |-> [q \in {x \in DOMAIN t : x # dir /\ ~Under(x, dir)} |-> t[q]]]

\* SimpleFileSystem::delete_directory: [ret, t]
sh_delete_directory(of, t, normalized) ==
    IF Resolves(t, normalized) # "directory" THEN [ret |-> 0 - 2, t |-> t]
    ELSE IF \E file_path \in DOMAIN of : StartsWith(file_path, normalized)
    THEN [ret |-> 0 - 3, t |-> t]
    ELSE IF ~Removed(t, normalized).ok THEN [ret |-> 0 - 4, t |-> t]
    ELSE [ret |-> 0, t |-> Removed(t, normalized).t]

\* SimpleFileSystem::delete_file: [ret, t]
sh_delete_file(of, t, normalized) ==
    IF is_file_protected(of, normalized) THEN [ret |-> 0 - 2, t |-> t]
    ELSE IF Resolves(t, normalized) # "file" THEN [ret |-> 0 - 3, t |-> t]
    ELSE [ret |-> 0, t |-> [q \in (DOMAIN t) \ {normalized} |-> t[q]]]

\* SimpleFileSystem::create_file: [ret, t]
sh_create_file(of, t, normalized) ==
    IF is_file_protected(of, normalized) THEN [ret |-> 0 - 3, t |-> t]
    ELSE IF ~Created(t, normalized, "file").ok THEN [ret |-> 0 - 4, t |-> t]
    ELSE [ret |-> 0, t |-> Created(t, normalized, "file").t]

InitShell ==
    /\ bmImpl = "none"
    /\ total_blocks_ = 0
    /\ free_blocks_ = 0
    /\ bitmap_ = <<>>
    /\ bmLast = [op |-> "none", ok |-> TRUE, val |-> 0]
    /\ disk = << >>
    /\ stream_fail = FALSE
    /\ CacheUnused
    /\ FsUnused
    /\ ClientsUnused
    /\ vdisk = << >>
    /\ dirpage = << >>
    /\ sched = << >>
    /\ tree = (ShRoot :> "directory")
    /\ current_path_ = ShRoot
    /\ npLast = [op |-> "none", path |-> << >>, result |-> << >>]

ShMount ==
    /\ fsLast' = [op |-> "mount", ret |-> IF mounted_ THEN 0 ELSE 1]
    /\ mounted_' = TRUE
    /\ tree' = IF mounted_ THEN tree ELSE (ShRoot :> "directory")
    /\ UNCHANGED <<open_files_, current_path_, shellOthers>>

ShUnmount ==
    /\ fsLast' = [op |-> "unmount", ret |-> 0]
    /\ mounted_' = FALSE
    /\ open_files_' = IF mounted_ THEN << >> ELSE open_files_
    /\ UNCHANGED <<tree, current_path_, shellOthers>>

ShChangeDirectory(path) ==
    /\ \E target_path \in {normalize_path(current_path_, path)} :
           IF mounted_ /\ Resolves(tree, target_path) = "directory"
           THEN /\ current_path_' = target_path
                /\ fsLast' = [op |-> "change_directory", ret |-> 1]
           ELSE /\ current_path_' = current_path_
                /\ fsLast' = [op |-> "change_directory", ret |-> 0]
    /\ UNCHANGED <<mounted_, open_files_, tree, shellOthers>>

ShCreateDirectory(parent_path, name) ==
    /\ \E r \in {IF mounted_ THEN Created(tree, ChildOf(parent_path, name), "directory")
                             ELSE [ok |-> FALSE, t |-> tree]} :
           /\ tree' = r.t
           /\ fsLast' = [op |-> "create_directory",
                         ret |-> IF ~mounted_ THEN 0 - 1
                                 ELSE IF r.ok THEN 0 ELSE 0 - 3]
    /\ UNCHANGED <<mounted_, open_files_, current_path_, shellOthers>>

ShCreateFile(path) ==
    /\ \E r \in {IF mounted_ THEN sh_create_file(open_files_, tree, path)
                             ELSE [ret |-> 0 - 1, t |-> tree]} :
           /\ tree' = r.t
           /\ fsLast' = [op |-> "create_file", ret |-> r.ret]
    /\ UNCHANGED <<mounted_, open_files_, current_path_, shellOthers>>

ShDeleteDirectory(normalized) ==
    /\ \E r \in {IF mounted_ THEN sh_delete_directory(open_files_, tree, normalized)
                             ELSE [ret |-> 0 - 1, t |-> tree]} :
           /\ tree' = r.t
           /\ fsLast' = [op |-> "delete_directory", ret |-> r.ret]
    /\ UNCHANGED <<mounted_, open_files_, current_path_, shellOthers>>

ShDeleteFile(path) ==
    /\ \E r \in {IF mounted_ THEN sh_delete_file(open_files_, tree, path)
                             ELSE [ret |-> 0 - 1, t |-> tree]} :
           /\ tree' = r.t
           /\ fsLast' = [op |-> "delete_file", ret |-> r.ret]
    /\ UNCHANGED <<mounted_, open_files_, current_path_, shellOthers>>

ShOpenFile(path) ==
    /\ path \in DOMAIN open_files_ => open_files_[path] < MaxOpens
    /\ IF mounted_ /\ Resolves(tree, path) # "none"
       THEN /\ open_files_' = Incremented(open_files_, path)
            /\ fsLast' = [op |-> "open_file", ret |-> 1]
       ELSE /\ open_files_' = open_files_
            /\ fsLast' = [op |-> "open_file", ret |-> 0]
    /\ UNCHANGED <<mounted_, tree, current_path_, shellOthers>>

ShCloseFile(path) ==
    /\ IF mounted_ /\ path \in DOMAIN open_files_ /\ open_files_[path] > 0
       THEN /\ open_files_' = Decremented(open_files_, path)
            /\ fsLast' = [op |-> "close_file", ret |-> 1]
       ELSE /\ open_files_' = open_files_
            /\ fsLast' = [op |-> "close_file", ret |-> 0]
    /\ UNCHANGED <<mounted_, tree, current_path_, shellOthers>>

NextShell ==
    \/ ShMount
    \/ ShUnmount
    \/ \E path \in CdInputs : ShChangeDirectory(path)
    \/ \E d \in ShDirs : ShCreateDirectory(ParentOf(d), NameIn(d))
    \/ \E path \in ShFiles : ShCreateFile(path)
    \/ \E d \in ShDirs \cup {ShRoot} : ShDeleteDirectory(d)
    \/ \E path \in ShFiles : ShDeleteFile(path)
    \/ \E path \in ShFiles : ShOpenFile(path)
    \/ \E path \in ShFiles : ShCloseFile(path)

SpecShell == InitShell /\ [][NextShell]_vars

\* C36: delete_directory(d) returns -3 (busy) only when an open path is d
\* itself or lies in the tree below d; an open file whose path only starts
\* with the characters of d does not make it busy.
C36_BusyOnlyBelow ==
    [][\A d \in ShDirs \cup {ShRoot} :
         (mounted_ /\ ShDeleteDirectory(d) /\ fsLast'.ret = 0 - 3)
         => \E file_path \in DOMAIN open_files_ :
                file_path = d \/ Under(file_path, d)]_vars

\* the current directory is a normalized path of an existing directory
CwdValid ==
    /\ normalize_path(ShRoot, current_path_) = current_path_
    /\ Resolves(tree, current_path_) = "directory"

\* C37: while the file system is mounted the current directory is, after
\* every call, a normalized path that resolves to a directory; a
\* change_directory that fails leaves the current directory as it was.
C37_CwdIsADirectory ==
    [][/\ mounted_' => CwdValid'
       /\ \A path \in CdInputs :
              (ShChangeDirectory(path) /\ fsLast'.ret = 0)
              => current_path_' = current_path_]_vars

\* the thread holds rw_lock_, as a reader or as the writer
HoldsLock(c) == c \in rw_lock_.readers \/ rw_lock_.writer = c

\* C38: in read_block of the revision that locks, the frame's data is
\* copied to the caller while the thread holds rw_lock_, and the release
\* that the read guard issues when the call returns is the release of a
\* share the thread holds.
C38_LockDiscipline ==
    [][\A c \in CacheClients :
         /\ (Locked /\ (RbCopyHit(c) \/ RbCopy(c))) => HoldsLock(c)
         /\ (Locked /\ pc[c] \notin {"idle"} /\ pc'[c] = "idle")
                => c \in rw_lock_.readers]_vars

(***************************************************************************)
(* SimpleScheduler (unnamed/part_002, src/process/scheduler.h).  Three     *)
(* kinds of thread act on one scheduler object: the caller of the public   *)
(* functions ("main"), the scheduler thread that runs schedule_loop, and   *)
(* one thread per dispatch that runs run_process.  A function that holds   *)
(* scheduler_mutex_ from its first statement to its last is one step; the  *)
(* loop gives one step per visited process in cleanup_finished_processes,  *)
(* because its join can wait, and run_process gives one step per access.   *)
(* MAX_PROCESSES is scaled to MaxProcesses.  sched is a record:            *)
(*   running_, processes_, ready_queue_, scheduler_mutex_, current_pid_,   *)
(*   next_pid_  the members of the class; a process is                     *)
(*              [pid, state, thread, running], thread = 0 for nullptr and  *)
(*              the index of a thread otherwise                            *)
(*   loop, at   the statement schedule_loop is at and the iterator of      *)
(*              cleanup_finished_processes                                 *)
(*   main, idx, last   the statement stop() is at, the position and the    *)
(*              end of its range-for                                       *)
(*   threads    the std::thread objects schedule_next made, each           *)
(*              [pid, it, pc, joined, stale]: `it` of run_process, the     *)
(*              statement it is at, join() has returned, `it` was          *)
(*              invalidated by an erase                                    *)
(*   started    history: per pid, how often task() was called              *)
(*   ret        what the last create_process returned                      *)
(*   aborted    std::terminate has ended the program                       *)
(***************************************************************************)
MaxProcesses == 2
MaxPid == 3
MaxThreads == 3

Pids == 1 .. MaxPid
schedOthers == <<bmVars, devVars, cVars, fsVars, pathVars, cliVars, vdisk, dirpage, tree>>

\* std::find_if over processes_: the position of the pid, 0 for end()
SlotOf(processes, pid) ==
    IF \E i \in 1 .. Len(processes) : processes[i].pid = pid
    THEN CHOOSE i \in 1 .. Len(processes) : processes[i].pid = pid
    ELSE 0

\* the thread object exists and join() has not returned on it
Joinable(s, t) == t # 0 /\ ~s.threads[t].joined

\* what a use of an invalidated iterator can do: go through the address it
\* holds, or end the program
StaleUse == {"through", "abort"}

\* SimpleScheduler::SimpleScheduler
InitSched ==
    /\ bmImpl = "none"
    /\ total_blocks_ = 0
    /\ free_blocks_ = 0
    /\ bitmap_ = <<>>
    /\ bmLast = [op |-> "none", ok |-> TRUE, val |-> 0]
    /\ disk = << >>
    /\ stream_fail = FALSE
    /\ CacheUnused
    /\ FsUnused
    /\ PathUnused
    /\ ClientsUnused
    /\ vdisk = << >>
    /\ dirpage = << >>
    /\ tree = << >>
    /\ sched = [running_ |-> FALSE, processes_ |-> << >>, ready_queue_ |-> << >>,
                scheduler_mutex_ |-> "free", current_pid_ |-> 0, next_pid_ |-> 1,
                loop |-> "none", at |-> 0, main |-> "idle", idx |-> 0, last |-> 0,
                threads |-> << >>, started |-> [p \in Pids |-> 0], ret |-> 0,
                aborted |-> FALSE]

\* the caller is between two calls and the mutex can be taken
MainCanLock == sched.main = "idle" /\ sched.scheduler_mutex_ = "free" /\ ~sched.aborted

\* SimpleScheduler::create_process
SchCreateProcess ==
    /\ MainCanLock
    /\ sched.next_pid_ <= MaxPid
    /\ sched' =
         IF Len(sched.processes_) >= MaxProcesses
         THEN [sched EXCEPT !.ret = 0]
         ELSE [sched EXCEPT
                 !.processes_ = Append(@, [pid |-> sched.next_pid_, state |-> "READY",
                                           thread |-> 0, running |-> FALSE]),
                 !.ready_queue_ = Append(@, sched.next_pid_),
                 !.next_pid_ = @ + 1,
                 !.ret = sched.next_pid_]
    /\ UNCHANGED schedOthers

\* SimpleScheduler::start
SchStart ==
    /\ MainCanLock
    /\ sched' = IF sched.running_ THEN sched
                ELSE [sched EXCEPT !.running_ = TRUE, !.loop = "head"]
    /\ UNCHANGED schedOthers

\* the assignments of run_process and terminate_process to the process
\* at a position, 0 and a position past the end for none
Terminated(s, it, pid) ==
    [s EXCEPT
       !.processes_ = [i \in DOMAIN @ |->
                         IF i = it THEN [@[i] EXCEPT !.state = "TERMINATED",
                                                     !.running = FALSE]
                         ELSE @[i]],
       !.current_pid_ = IF @ = pid THEN 0 ELSE @]

\* SimpleScheduler::terminate_process
SchTerminateProcess(pid) ==
    /\ MainCanLock
    /\ sched' = IF SlotOf(sched.processes_, pid) # 0
                THEN Terminated(sched, SlotOf(sched.processes_, pid), pid)
                ELSE sched
    /\ UNCHANGED schedOthers

\* SimpleScheduler::stop, the block that clears running_
SchStop ==
    /\ MainCanLock
    /\ sched' = [sched EXCEPT !.running_ = FALSE, !.main = "join", !.idx = 1,
                              !.last = Len(sched.processes_)]
    /\ UNCHANGED schedOthers

\* SimpleScheduler::stop, one pass of the loop over processes_, which holds
\* no lock: the bounds of the range are those of the time the loop began,
\* and a position the scheduler thread has erased since is read through an
\* invalidated iterator, where the thread pointer is null or the program
\* ends.  join() returns when the thread has finished.
SchStopJoin ==
    /\ sched.main = "join"
    /\ ~sched.aborted
    /\ IF sched.idx > sched.last
       THEN sched' = [sched EXCEPT !.main = "joinloop"]
       ELSE IF sched.idx > Len(sched.processes_)
       THEN \E use \in StaleUse :
                sched' = IF use = "abort" THEN [sched EXCEPT !.aborted = TRUE]
                         ELSE [sched EXCEPT !.idx = @ + 1]
       ELSE \E t \in {sched.processes_[sched.idx].thread} :
                IF Joinable(sched, t)
                THEN /\ sched.threads[t].pc = "done"
                     /\ sched' = [sched EXCEPT !.processes_[sched.idx].running = FALSE,
                                               !.threads[t].joined = TRUE,
                                               !.idx = @ + 1]
                ELSE sched' = [sched EXCEPT !.idx = @ + 1]
    /\ UNCHANGED schedOthers

\* SimpleScheduler::stop, the join of the scheduler thread
SchStopJoinLoop ==
    /\ sched.main = "joinloop"
    /\ ~sched.aborted
    /\ sched.loop \in {"none", "exited"}
    /\ sched' = [sched EXCEPT !.loop = "none", !.main = "idle"]
    /\ UNCHANGED schedOthers

\* SimpleScheduler::schedule_next.  make_unique starts the new thread; the
\* assignment then destroys the std::thread the process had, and the
\* destructor of a thread that was not joined calls std::terminate.
schedule_next(s) ==
    IF s.ready_queue_ = << >> THEN [s EXCEPT !.current_pid_ = 0]
    ELSE LET next_pid == Head(s.ready_queue_)
             it == SlotOf(s.processes_, Head(s.ready_queue_))
         IN IF it # 0 /\ s.processes_[it].state = "READY"
            THEN [s EXCEPT
                    !.ready_queue_ = Tail(@),
                    !.current_pid_ = next_pid,
                    !.processes_[it].state = "RUNNING",
                    !.processes_[it].running = TRUE,
                    !.processes_[it].thread = Len(s.threads) + 1,
                    !.threads = Append(@, [pid |-> next_pid, it |-> 0, pc |-> "find",
                                           joined |-> FALSE, stale |-> FALSE]),
                    !.loop = IF Joinable(s, s.processes_[it].thread)
                             THEN "terminate" ELSE @]
            ELSE [s EXCEPT !.ready_queue_ = Tail(@)]

\* SimpleScheduler::check_preemption; expired: elapsed.count() >= time_slice
check_preemption(s, expired) ==
    IF s.current_pid_ = 0 THEN s
    ELSE LET it == SlotOf(s.processes_, s.current_pid_)
         IN IF it = 0 \/ s.processes_[it].state # "RUNNING" THEN s
            ELSE IF expired
            THEN [s EXCEPT !.processes_[it].state = "READY",
                           !.processes_[it].running = FALSE,
                           !.ready_queue_ = Append(@, s.current_pid_),
                           !.current_pid_ = 0]
            ELSE s

\* SimpleScheduler::schedule_loop, the test of the while
SchLoopHead ==
    /\ sched.loop = "head"
    /\ ~sched.aborted
    /\ sched' = [sched EXCEPT !.loop = IF sched.running_ THEN "sleep" ELSE "exited"]
    /\ UNCHANGED schedOthers

\* the readings of the clock: a time slice is longer than one pass of the
\* loop, so the process dispatched in this pass has not used its slice
Expiries(s) ==
    IF s.current_pid_ = 0 \/ Len(s.threads) >= MaxThreads THEN {FALSE} ELSE BOOLEAN

\* SimpleScheduler::schedule_loop, the body up to cleanup_finished_processes:
\* with an empty ready queue the pass ends at once
SchLoopBody ==
    /\ sched.loop = "sleep"
    /\ sched.scheduler_mutex_ = "free"
    /\ ~sched.aborted
    /\ IF sched.ready_queue_ = << >>
       THEN sched' = [sched EXCEPT !.loop = "head"]
       ELSE \E expired \in Expiries(sched) :
            \E s \in {[sched EXCEPT !.loop = "cleanup", !.at = 1,
                                    !.scheduler_mutex_ = "loop"]} :
            \E n \in {IF s.current_pid_ = 0 THEN schedule_next(s) ELSE s} :
                sched' = IF n.loop = "terminate" THEN n
                         ELSE check_preemption(n, expired)
    /\ UNCHANGED schedOthers

\* std::terminate, called in schedule_next, ends the program
SchAbort ==
    /\ sched.loop = "terminate"
    /\ ~sched.aborted
    /\ sched' = [sched EXCEPT !.aborted = TRUE]
    /\ UNCHANGED schedOthers

\* std::vector::erase: the processes behind the position move down by one,
\* and the iterators at and behind the position are invalidated
Erased(s, it) ==
    [s EXCEPT
       !.processes_ = [i \in 1 .. (Len(@) - 1) |-> IF i < it THEN @[i] ELSE @[i + 1]],
       !.threads = [t \in DOMAIN @ |->
                      IF @[t].pc \in {"task", "lock"} /\ @[t].it >= it
                      THEN [@[t] EXCEPT !.stale = TRUE] ELSE @[t]]]

\* SimpleScheduler::cleanup_finished_processes, one pass of its loop, under
\* the mutex schedule_loop holds; join() returns when the thread has finished
SchCleanup ==
    /\ sched.loop = "cleanup"
    /\ ~sched.aborted
    /\ IF sched.at > Len(sched.processes_)
       THEN sched' = [sched EXCEPT !.loop = "head", !.at = 0,
                                   !.scheduler_mutex_ = "free"]
       ELSE IF sched.processes_[sched.at].state = "TERMINATED"
       THEN \E t \in {sched.processes_[sched.at].thread} :
                IF Joinable(sched, t)
                THEN /\ sched.threads[t].pc = "done"
                     /\ sched' = Erased([sched EXCEPT !.threads[t].joined = TRUE],
                                        sched.at)
                ELSE sched' = Erased(sched, sched.at)
       ELSE sched' = [sched EXCEPT !.at = @ + 1]
    /\ UNCHANGED schedOthers

\* SimpleScheduler::run_process, the find_if and the call of the task
ThFind(t) ==
    /\ sched.threads[t].pc = "find"
    /\ ~sched.aborted
    /\ \E it \in {SlotOf(sched.processes_, sched.threads[t].pid)} :
           sched' = IF it = 0 THEN [sched EXCEPT !.threads[t].pc = "done"]
                    ELSE [sched EXCEPT !.threads[t].pc = "task",
                                       !.threads[t].it = it,
                                       !.started[sched.threads[t].pid] = @ + 1]
    /\ UNCHANGED schedOthers

\* the process `it` of the thread leads to: a position past the end is
\* storage no process lives in
Through(s, t) == IF s.threads[t].it <= Len(s.processes_) THEN s.threads[t].it ELSE 0

\* SimpleScheduler::run_process, the task returns or throws: the handler
\* of the exception assigns without taking the mutex
ThTaskEnds(t, throws) ==
    /\ sched.threads[t].pc = "task"
    /\ ~sched.aborted
    /\ IF ~throws
       THEN sched' = [sched EXCEPT !.threads[t].pc = "lock"]
       ELSE \E use \in (IF sched.threads[t].stale THEN StaleUse ELSE {"through"}) :
                sched' = IF use = "abort" THEN [sched EXCEPT !.aborted = TRUE]
                         ELSE Terminated([sched EXCEPT !.threads[t].pc = "done"],
                                         Through(sched, t), sched.threads[t].pid)
    /\ UNCHANGED schedOthers

\* SimpleScheduler::run_process, the assignments under the mutex
ThFinish(t) ==
    /\ sched.threads[t].pc = "lock"
    /\ sched.scheduler_mutex_ = "free"
    /\ ~sched.aborted
    /\ \E use \in (IF sched.threads[t].stale THEN StaleUse ELSE {"through"}) :
           sched' = IF use = "abort" THEN [sched EXCEPT !.aborted = TRUE]
                    ELSE Terminated([sched EXCEPT !.threads[t].pc = "done"],
                                    Through(sched, t), sched.threads[t].pid)
    /\ UNCHANGED schedOthers

Threads == 1 .. (MaxThreads + 1)

NextSched ==
    \/ SchCreateProcess
    \/ SchStart
    \/ \E pid \in Pids : SchTerminateProcess(pid)
    \/ SchStop
    \/ SchStopJoin
    \/ SchStopJoinLoop
    \/ SchLoopHead
    \/ SchLoopBody
    \/ SchAbort
    \/ SchCleanup
    \/ \E t \in Threads : t <= Len(sched.threads) /\ ThFind(t)
    \/ \E t \in Threads : \E throws \in BOOLEAN :
           t <= Len(sched.threads) /\ ThTaskEnds(t, throws)
    \/ \E t \in Threads : t <= Len(sched.threads) /\ ThFinish(t)

SpecSched == InitSched /\ [][NextSched]_vars

\* the threads that run the task of the process or are about to
ThreadsOf(pid) ==
    {t \in DOMAIN sched.threads :
        sched.threads[t].pid = pid /\ sched.threads[t].pc \in {"find", "task"}}

\* C39: the task of a process is started at most once, at most one thread
\* runs or is about to run the task of a process, and at most one process
\* of the list is in state RUNNING.
C39_OneThreadPerProcess ==
    /\ \A pid \in Pids : sched.started[pid] <= 1
    /\ \A pid \in Pids : Cardinality(ThreadsOf(pid)) <= 1
    /\ Cardinality({i \in DOMAIN sched.processes_ :
                        sched.processes_[i].state = "RUNNING"}) <= 1

(***************************************************************************)
(* The scheduler under fair scheduling of its threads.  The scheduler      *)
(* thread, a thread that runs run_process and a caller inside stop() each  *)
(* take their next step when it is possible; the scheduler thread sleeps   *)
(* between two passes without the mutex, so a thread that waits for        *)
(* scheduler_mutex_ gets it once it is free again and again.  Every task   *)
(* ends.  When the caller calls create_process, start, terminate_process   *)
(* or stop is left open.                                                   *)
(***************************************************************************)
LoopSteps == SchLoopHead \/ SchLoopBody \/ SchAbort \/ SchCleanup
StopSteps == SchStopJoin \/ SchStopJoinLoop
ThreadSteps(t) ==
    /\ t <= Len(sched.threads)
    /\ (ThFind(t) \/ ThFinish(t) \/ \E throws \in BOOLEAN : ThTaskEnds(t, throws))

FairSched ==
    /\ SpecSched
    /\ SF_vars(LoopSteps)
    /\ WF_vars(StopSteps)
    /\ \A t \in Threads : SF_vars(ThreadSteps(t))

\* the process is in the list, in the state
InState(pid, state) ==
    \E i \in DOMAIN sched.processes_ :
        sched.processes_[i].pid = pid /\ sched.processes_[i].state = state
InList(pid) == SlotOf(sched.processes_, pid) # 0
\* the process was given a thread
Dispatched(pid) == \E t \in DOMAIN sched.threads : sched.threads[t].pid = pid
\* a thread of the process has returned from its task
TaskReturned(pid) ==
    \E t \in DOMAIN sched.threads :
        sched.threads[t].pid = pid /\ sched.threads[t].pc \in {"lock", "done"}
\* the scheduler was stopped or the program has ended
Stopped == ~sched.running_ \/ sched.aborted \/ sched.loop = "terminate"

\* C40: while the scheduler runs, a process in the list is dispatched or
\* leaves the list; a process whose task has returned, and a process that
\* is TERMINATED, leaves the list; a full list gets room again; and
\* cleanup_finished_processes and the joins of stop() come to an end.
C40_SchedulerProgress ==
    /\ \A pid \in Pids :
           (sched.running_ /\ InList(pid))
               ~> (Dispatched(pid) \/ ~InList(pid) \/ Stopped)
    /\ \A pid \in Pids :
           (sched.running_ /\ InList(pid)
               /\ (TaskReturned(pid) \/ InState(pid, "TERMINATED")))
               ~> (~InList(pid) \/ Stopped)
    /\ (sched.running_ /\ Len(sched.processes_) >= MaxProcesses)
           ~> (Len(sched.processes_) < MaxProcesses \/ Stopped)
    /\ (sched.loop = "cleanup") ~> (sched.loop # "cleanup" \/ sched.aborted)
    /\ (sched.main = "join") ~> (sched.main # "join" \/ sched.aborted)

====
